---- MODULE Spec2Model ----
(***************************************************************************)
(* Model of the Pomerium Zero Terraform provider.                          *)
(*                                                                         *)
(* The provider session (pomeriumZeroProvider), the three resource         *)
(* handlers (RouteResource, PolicyResource, ClusterSettingsResource) and   *)
(* the cluster data source are modelled together with the remote REST      *)
(* service they talk to.  Every handler operation is one action: it reads  *)
(* its input (plan / state / config), builds the request, receives one     *)
(* response chosen by the remote service and writes state and diagnostics. *)
(*                                                                         *)
(* Terraform attribute values (types.String, types.Bool, types.Float64,    *)
(* types.List) are records [s, v]: s is "null", "unknown" or "known" and v *)
(* is the Go value that ValueString()/ValueBool()/... returns (the zero    *)
(* value unless s = "known").  JSON values are records [t, v] with the     *)
(* JSON type in t; a JSON object is a function from its keys.              *)
(***************************************************************************)
EXTENDS Naturals, Integers, Sequences, FiniteSets, TLC

VARIABLES
    provider,   \* pomeriumZeroProvider: client, token, organizationID
    handler,    \* per handler: client, token, organizationID
    tfstate,    \* per resource kind: the stored Terraform state, absent or present
    remote,     \* the remote service: stored documents per kind
    last,       \* the operation that just ran: requests, response, diagnostics
    nops,       \* number of operations run so far
    fn          \* input and output of the pure mapping function under study

vars == <<provider, handler, tfstate, remote, last, nops, fn>>

-----------------------------------------------------------------------------
(* Bounds *)

MaxOps == 4          \* operations per behaviour
MaxOrgs == 2         \* organizations the remote lists
MaxDocs == 2         \* documents the remote creates per kind
MaxClusters == 2     \* clusters the remote lists

-----------------------------------------------------------------------------
(* HTTP status codes (net/http) *)

StatusOK == 200
StatusCreated == 201
StatusNoContent == 204
StatusNotFound == 404

\* statuses the service answers with that the program does not name
ServerErrors == {500}

Statuses == {StatusOK, StatusCreated, StatusNoContent, StatusNotFound} \cup ServerErrors

-----------------------------------------------------------------------------
(* Terraform attribute values *)

StringNull == [s |-> "null", v |-> ""]
StringUnknown == [s |-> "unknown", v |-> ""]
StringValue(x) == [s |-> "known", v |-> x]
BoolNull == [s |-> "null", v |-> FALSE]
BoolValue(b) == [s |-> "known", v |-> b]
Float64Null == [s |-> "null", v |-> 0]
Float64Value(n) == [s |-> "known", v |-> n]
ListNull == [s |-> "null", v |-> <<>>]
ListValue(l) == [s |-> "known", v |-> l]

IsNull(a) == a.s = "null"
ValueString(a) == a.v
ValueBool(a) == a.v
ValueFloat64(a) == a.v
ElementsAs(a) == a.v

-----------------------------------------------------------------------------
(* JSON values *)

JString(x) == [t |-> "string", v |-> x]
JBool(b) == [t |-> "bool", v |-> b]
JNumber(n) == [t |-> "number", v |-> n]
JArray(l) == [t |-> "array", v |-> l]
JNull == [t |-> "null", v |-> 0]

NoBody == <<>>

Has(doc, k) == k \in DOMAIN doc
IsA(doc, k, type) == Has(doc, k) /\ doc[k].t = type

\* the object obj extended (or overwritten) with key k
With(obj, k, val) == [x \in (DOMAIN obj) \cup {k} |-> IF x = k THEN val ELSE obj[x]]

\* encoding/json decoding of one struct field: an absent key and a JSON null
\* leave the Go zero value
FieldString(doc, k) == IF IsA(doc, k, "string") THEN doc[k].v ELSE ""
FieldBool(doc, k) == IF IsA(doc, k, "bool") THEN doc[k].v ELSE FALSE
FieldNumber(doc, k) == IF IsA(doc, k, "number") THEN doc[k].v ELSE 0

-----------------------------------------------------------------------------
(* HTTP exchange *)

\* URL below apiBaseURL: /token, /organizations, or
\* /organizations/<org>/<coll>[/<id>] (for cluster settings
\* /organizations/<org>/clusters/<id>/settings).  A collection URL has no id.
NoId == "-"
Url(coll, org, id) == [coll |-> coll, org |-> org, id |-> id]

Request(method, url, bearer, body) ==
    [method |-> method, url |-> url, bearer |-> bearer, body |-> body]

\* what client.Do returns: a transport error, or a status and a body; the body
\* is a JSON document
\* (an object in doc, an array in list), bytes that do not decode, or an error text
TransportError == [err |-> TRUE, status |-> 0, body |-> "none", doc |-> <<>>, list |-> <<>>]
Response(status, body, doc) ==
    [err |-> FALSE, status |-> status, body |-> body, doc |-> doc, list |-> <<>>]
ListResponse(status, body, list) ==
    [err |-> FALSE, status |-> status, body |-> body, doc |-> <<>>, list |-> list]

BodyForms == {"json", "garbage", "notfound"}

\* the body an error message quotes contains the words "... not found"
SaysNotFound(resp) == ~resp.err /\ resp.body = "notfound"
Decodes(resp) == ~resp.err /\ resp.body = "json"

-----------------------------------------------------------------------------
(* Provider session: pomeriumZeroProvider *)

\* the record of one operation: its input (configuration, plan or state), the
\* requests it sent and the answers, the error diagnostics it added, the stored
\* state before it and the state in its response
NoOp == [op |-> "none", kind |-> "none", input |-> <<>>, requests |-> <<>>,
         resps |-> <<>>, errors |-> <<>>, prior |-> <<>>, respState |-> <<>>]

Ran(op, kind, input, requests, resps, errors, prior, respState) ==
    [op |-> op, kind |-> kind, input |-> input, requests |-> requests,
     resps |-> resps, errors |-> errors, prior |-> prior, respState |-> respState]

NewProvider == [client |-> FALSE, token |-> "", organizationID |-> "", configured |-> "no"]

ApiTokens == {StringNull, StringValue("apitok")}
OrgNames == {"personal", "work"}
Organizations == {[id |-> "org1", name |-> "personal"], [id |-> "org2", name |-> "work"]}

RECURSIVE SeqsUpTo(_, _)
SeqsUpTo(S, n) ==
    IF n = 0 THEN {<<>>}
    ELSE LET shorter == SeqsUpTo(S, n - 1)
         IN  shorter \cup {Append(q, x) : q \in {r \in shorter : Len(r) = n - 1}, x \in S}

\* answers of the token endpoint
TokenResponses ==
    {TransportError}
    \cup {Response(st, "json", [idToken |-> JString("jwt1")]) : st \in {StatusOK} \cup ServerErrors}
    \cup {Response(StatusOK, "json", <<>>), Response(StatusOK, "garbage", <<>>)}

\* answers of the organizations endpoint
OrganizationsResponses ==
    {TransportError, Response(StatusOK, "garbage", <<>>)}
    \cup {ListResponse(st, "json", orgs) : st \in {StatusOK, StatusNotFound},
                                          orgs \in SeqsUpTo(Organizations, MaxOrgs)}

tokenRequest(apiToken) ==
    Request("POST", Url("token", "", NoId), "", [refreshToken |-> JString(apiToken)])

\* getToken: [ok, token]
getToken(resp) ==
    IF resp.err THEN [ok |-> FALSE, token |-> ""]
    ELSE IF resp.status # StatusOK THEN [ok |-> FALSE, token |-> ""]
    ELSE IF ~Decodes(resp) THEN [ok |-> FALSE, token |-> ""]
    ELSE [ok |-> TRUE, token |-> FieldString(resp.doc, "idToken")]

\* organizationsRequest without the Authorization header
organizationsRequestUnauthenticated(token) ==
    Request("GET", Url("organizations", "", NoId), "", NoBody)

organizationsRequest(token) ==
    Request("GET", Url("organizations", "", NoId), token, NoBody)

\* variant: the first organization listed is taken when there are several
getOrganizationIDFirst(resp) ==
    IF resp.err THEN [ok |-> FALSE, id |-> "", err |-> "transport error"]
    ELSE IF resp.status # StatusOK
    THEN [ok |-> FALSE, id |-> "", err |-> "unexpected status code"]
    ELSE IF ~Decodes(resp) THEN [ok |-> FALSE, id |-> "", err |-> "decoding error"]
    ELSE IF Len(resp.list) = 0
    THEN [ok |-> FALSE, id |-> "", err |-> "unexpected number of organizations returned"]
    ELSE [ok |-> TRUE, id |-> resp.list[1].id, err |-> ""]

\* getOrganizationID: [ok, id, err]
getOrganizationID(resp) ==
    IF resp.err THEN [ok |-> FALSE, id |-> "", err |-> "transport error"]
    ELSE IF resp.status # StatusOK
    THEN [ok |-> FALSE, id |-> "", err |-> "unexpected status code"]
    ELSE IF ~Decodes(resp) THEN [ok |-> FALSE, id |-> "", err |-> "decoding error"]
    ELSE IF Len(resp.list) # 1
    THEN [ok |-> FALSE, id |-> "", err |-> "unexpected number of organizations returned"]
    ELSE [ok |-> TRUE, id |-> resp.list[1].id, err |-> ""]

\* Configure of the provider.  config.organization_name is what the user wrote
\* in the provider block; the provider model has no such field.
ProviderConfigureResult(p, config, tokenResp, orgResp) ==
    IF IsNull(config.api_token)
    THEN [p |-> [p EXCEPT !.configured = "failed"],
          requests |-> <<>>, resps |-> <<>>,
          errors |-> <<"Missing API Token Configuration">>]
    ELSE LET t == getToken(tokenResp)
             o == getOrganizationID(orgResp)
             treq == tokenRequest(ValueString(config.api_token))
         IN  IF ~t.ok
             THEN [p |-> [p EXCEPT !.client = TRUE, !.configured = "failed"],
                   requests |-> <<treq>>, resps |-> <<tokenResp>>,
                   errors |-> <<"Unable to Authenticate to Pomerium Zero">>]
             ELSE IF ~o.ok
             THEN [p |-> [p EXCEPT !.client = TRUE, !.token = t.token, !.configured = "failed"],
                   requests |-> <<treq, organizationsRequest(t.token)>>,
                   resps |-> <<tokenResp, orgResp>>,
                   errors |-> <<"Unable to Fetch Organization ID">>]
             ELSE [p |-> [p EXCEPT !.client = TRUE, !.token = t.token,
                                   !.organizationID = o.id, !.configured = "ok"],
                   requests |-> <<treq, organizationsRequest(t.token)>>,
                   resps |-> <<tokenResp, orgResp>>,
                   errors |-> <<>>]

ProviderConfigure ==
    /\ nops < MaxOps
    /\ provider.configured = "no"
    /\ \E apiToken \in ApiTokens, name \in OrgNames,
          tokenResp \in TokenResponses, orgResp \in OrganizationsResponses :
          LET config == [api_token |-> apiToken, organization_name |-> name]
              r == ProviderConfigureResult(provider, config, tokenResp, orgResp)
          IN  /\ provider' = r.p
              /\ last' = Ran("Configure", "provider", config, r.requests, r.resps,
                             r.errors, <<>>, <<>>)
    /\ nops' = nops + 1
    /\ UNCHANGED <<handler, tfstate, remote, fn>>

-----------------------------------------------------------------------------
(* Handlers: Configure *)

Handlers == {"route", "policy", "settings", "cluster"}
Kinds == {"route", "policy", "settings"}

NewHandler == [client |-> FALSE, token |-> "", organizationID |-> ""]

\* req.ProviderData: nil, a value of another type, or the provider
ProviderData == {"nil", "other", "provider"}

\* ConfigureResult without the assignment of the token
ConfigureResultWithoutToken(h, data, p) ==
    IF data = "nil" THEN [h |-> h, errors |-> <<>>]
    ELSE IF data # "provider"
    THEN [h |-> h, errors |-> <<"Unexpected Configure Type">>]
    ELSE [h |-> [client |-> p.client, token |-> h.token, organizationID |-> p.organizationID],
          errors |-> <<>>]

\* Configure of RouteResource, PolicyResource, ClusterSettingsResource and
\* ClusterDataSource: [h, errors]
ConfigureResult(h, data, p) ==
    IF data = "nil" THEN [h |-> h, errors |-> <<>>]
    ELSE IF data # "provider"
    THEN [h |-> h, errors |-> <<"Unexpected Configure Type">>]
    ELSE [h |-> [client |-> p.client, token |-> p.token, organizationID |-> p.organizationID],
          errors |-> <<>>]

\* the framework hands the provider to a handler only after the provider's own
\* Configure returned without error
Configure(k) ==
    /\ nops < MaxOps
    /\ \E data \in ProviderData :
          /\ data = "provider" => provider.configured = "ok"
          /\ LET r == ConfigureResult(handler[k], data, provider)
             IN  /\ handler' = [handler EXCEPT ![k] = r.h]
                 /\ last' = Ran("Configure", k, [data |-> data], <<>>, <<>>, r.errors,
                                <<>>, <<>>)
    /\ nops' = nops + 1
    /\ UNCHANGED <<provider, tfstate, remote, fn>>

RouteConfigure == Configure("route")
PolicyConfigure == Configure("policy")
ClusterSettingsConfigure == Configure("settings")
ClusterDataSourceConfigure == Configure("cluster")

-----------------------------------------------------------------------------
(* The remote service *)

\* identifiers the service hands out, in order
IdNames == [route |-> <<"r1", "r2", "r3", "r4">>, policy |-> <<"p1", "p2", "p3", "p4">>,
            settings |-> <<"s1", "s2", "s3", "s4">>]

ClusterIds == {"c1"}
InitialSettings == [id |-> JString("s0"), address |-> JString(":443")]

NewRemote == [docs |-> [route |-> <<>>, policy |-> <<>>,
                        settings |-> [c \in ClusterIds |-> InitialSettings]],
              next |-> [k \in Kinds |-> 0]]

Stored(rem, k, id) == id \in DOMAIN rem.docs[k]
CanCreate(rem, k) == rem.next[k] < MaxDocs /\ rem.next[k] < Len(IdNames[k])
FreshId(rem, k) == IdNames[k][(rem.next[k] % Len(IdNames[k])) + 1]

\* the id inside a document about the resource at url: for a route or a policy
\* the id of the URL, for cluster settings an id of the settings' own
DocId(rem, k, url) ==
    IF k = "settings" THEN (IF Stored(rem, k, url.id) THEN rem.docs[k][url.id].id.v
                            ELSE FreshId(rem, k))
    ELSE IF url.id = NoId THEN FreshId(rem, k) ELSE url.id

\* a document the service did not store (sent with a misplaced status)
SampleDoc(k) ==
    CASE k = "route" -> [name |-> JString("n"), namespaceId |-> JString("ns"),
                         from |-> JString("f")]
      [] k = "policy" -> [name |-> JString("n"), namespaceId |-> JString("ns")]
      [] OTHER -> [address |-> JString(":443")]

AnswerDoc(rem, k, req) ==
    LET base == IF Stored(rem, k, req.url.id) THEN rem.docs[k][req.url.id]
                ELSE IF req.body # NoBody THEN req.body
                ELSE SampleDoc(k)
    IN  With(base, "id", JString(DocId(rem, k, req.url)))

Put(rem, k, id, doc) ==
    [rem EXCEPT !.docs[k] = [x \in (DOMAIN @) \cup {id} |-> IF x = id THEN doc ELSE @[x]]]
Drop(rem, k, id) ==
    [rem EXCEPT !.docs[k] = [x \in (DOMAIN @) \ {id} |-> @[x]]]

NotFound == Response(StatusNotFound, "notfound", <<>>)

\* the service doing what it was asked: [resp, remote]
Natural(rem, k, req) ==
    CASE req.method = "POST" ->
           IF k # "settings" /\ CanCreate(rem, k)
           THEN LET doc == With(req.body, "id", JString(FreshId(rem, k)))
                IN  [resp |-> Response(StatusCreated, "json", doc),
                     remote |-> [Put(rem, k, FreshId(rem, k), doc) EXCEPT !.next[k] = @ + 1]]
           ELSE IF k = "settings" /\ Stored(rem, k, req.url.id)
           THEN LET doc == With(req.body, "id", rem.docs[k][req.url.id].id)
                IN  [resp |-> Response(StatusCreated, "json", doc),
                     remote |-> Put(rem, k, req.url.id, doc)]
           ELSE [resp |-> NotFound, remote |-> rem]
      [] req.method = "GET" ->
           IF Stored(rem, k, req.url.id)
           THEN [resp |-> Response(StatusOK, "json", rem.docs[k][req.url.id]), remote |-> rem]
           ELSE [resp |-> NotFound, remote |-> rem]
      [] req.method = "PUT" ->
           IF Stored(rem, k, req.url.id)
           THEN LET doc == With(req.body, "id", rem.docs[k][req.url.id].id)
                IN  [resp |-> Response(StatusOK, "json", doc),
                     remote |-> Put(rem, k, req.url.id, doc)]
           ELSE [resp |-> NotFound, remote |-> rem]
      [] OTHER ->
           IF Stored(rem, k, req.url.id)
           THEN [resp |-> Response(StatusNoContent, "none", <<>>),
                 remote |-> IF k = "settings"
                            THEN Put(rem, k, req.url.id, [id |-> rem.docs[k][req.url.id].id])
                            ELSE Drop(rem, k, req.url.id)]
           ELSE [resp |-> NotFound, remote |-> rem]

\* the service or the network failing: nothing is stored, and the answer is a
\* transport error or any status with any kind of body
Faults(rem, k, req) ==
    {[resp |-> TransportError, remote |-> rem]}
    \cup {[resp |-> Response(st, form, IF form = "json" THEN AnswerDoc(rem, k, req) ELSE <<>>),
           remote |-> rem] : st \in Statuses, form \in BodyForms}

Serve(rem, k, req) == {Natural(rem, k, req)} \cup Faults(rem, k, req)

-----------------------------------------------------------------------------
(* Terraform state and plans *)

\* the stored state of one resource: absent, or a model
Absent(m) == [exists |-> FALSE, m |-> m]
Present(m) == [exists |-> TRUE, m |-> m]

\* Computed attribute with UseStateForUnknown
UseStateForUnknown(prior, value) ==
    IF prior.exists /\ ~IsNull(value) THEN value ELSE StringUnknown

Default(configured, value) == IF IsNull(configured) THEN value ELSE configured
Computed(configured, unknown) == IF IsNull(configured) THEN unknown ELSE configured

Opt(obj, cond, k, val) == IF cond THEN With(obj, k, val) ELSE obj

-----------------------------------------------------------------------------
(* RouteResource *)

EmptyRoute ==
    [ID |-> StringNull, Name |-> StringNull, NamespaceID |-> StringNull,
     From |-> StringNull, To |-> ListNull, AllowSpdy |-> BoolNull,
     AllowWebsockets |-> BoolNull,
     EnableGoogleCloudServerlessAuthentication |-> BoolNull,
     PassIdentityHeaders |-> BoolNull, PreserveHostHeader |-> BoolNull,
     ShowErrorDetails |-> BoolNull, TLSSkipVerify |-> BoolNull,
     TLSUpstreamAllowRenegotiation |-> BoolNull, PolicyIDs |-> ListNull,
     Prefix |-> StringNull, PrefixRewrite |-> StringNull,
     KubernetesServiceAccountToken |-> StringNull]

\* the plan the framework derives from the configuration by the schema:
\* required and optional attributes as configured, defaults filled in,
\* computed attributes unknown unless taken over from the state
RoutePlan(config, prior) ==
    [config EXCEPT
        !.ID = UseStateForUnknown(prior, prior.m.ID),
        !.AllowSpdy = Default(@, BoolValue(FALSE)),
        !.AllowWebsockets = Default(@, BoolValue(FALSE)),
        !.EnableGoogleCloudServerlessAuthentication = Default(@, BoolValue(FALSE)),
        !.PassIdentityHeaders = Computed(@, [s |-> "unknown", v |-> FALSE]),
        !.PreserveHostHeader = Default(@, BoolValue(FALSE)),
        !.ShowErrorDetails = Default(@, BoolValue(TRUE)),
        !.TLSSkipVerify = Default(@, BoolValue(FALSE)),
        !.TLSUpstreamAllowRenegotiation = Default(@, BoolValue(FALSE)),
        !.KubernetesServiceAccountToken =
            Computed(@, UseStateForUnknown(prior, prior.m.KubernetesServiceAccountToken))]

createRouteRequest(model) ==
    LET req0 == [name |-> JString(ValueString(model.Name)),
                 namespaceId |-> JString(ValueString(model.NamespaceID)),
                 from |-> JString(ValueString(model.From)),
                 allowSpdy |-> JBool(ValueBool(model.AllowSpdy)),
                 enableGoogleCloudServerlessAuthentication |->
                     JBool(ValueBool(model.EnableGoogleCloudServerlessAuthentication)),
                 showErrorDetails |-> JBool(ValueBool(model.ShowErrorDetails)),
                 tlsSkipVerify |-> JBool(ValueBool(model.TLSSkipVerify)),
                 tlsUpstreamAllowRenegotiation |->
                     JBool(ValueBool(model.TLSUpstreamAllowRenegotiation)),
                 kubernetesServiceAccountToken |->
                     JString(ValueString(model.KubernetesServiceAccountToken))]
        req1 == Opt(req0, ~IsNull(model.To), "to", JArray(ElementsAs(model.To)))
        req2 == Opt(req1, ~IsNull(model.AllowWebsockets), "allowWebsockets",
                    JBool(ValueBool(model.AllowWebsockets)))
        req3 == Opt(req2, ~IsNull(model.PassIdentityHeaders), "passIdentityHeaders",
                    JBool(ValueBool(model.PassIdentityHeaders)))
        req4 == Opt(req3, ~IsNull(model.PreserveHostHeader), "preserveHostHeader",
                    JBool(ValueBool(model.PreserveHostHeader)))
        req5 == Opt(req4, ~IsNull(model.PolicyIDs), "policyIds",
                    JArray(ElementsAs(model.PolicyIDs)))
        req6 == Opt(req5, ~IsNull(model.Prefix), "prefix", JString(ValueString(model.Prefix)))
        req7 == Opt(req6, ~IsNull(model.PrefixRewrite), "prefixRewrite",
                    JString(ValueString(model.PrefixRewrite)))
    IN  Opt(req7, ~IsNull(model.KubernetesServiceAccountToken),
            "kubernetesServiceAccountToken",
            JString(ValueString(model.KubernetesServiceAccountToken)))

updateRouteRequest(model) == createRouteRequest(model)

toBool(doc, k) == IF IsA(doc, k, "bool") THEN BoolValue(doc[k].v) ELSE BoolNull
toList(doc, k) == IF IsA(doc, k, "array") THEN ListValue(doc[k].v) ELSE ListNull
toString(doc, k) == IF IsA(doc, k, "string") THEN StringValue(doc[k].v) ELSE StringNull

\* the unchecked type assertions on id, name, namespaceId and from
mapRoutePanics(apiResponse) ==
    \E k \in {"id", "name", "namespaceId", "from"} : ~IsA(apiResponse, k, "string")

mapRouteResponseToModel(apiResponse) ==
    [ID |-> toString(apiResponse, "id"),
     Name |-> toString(apiResponse, "name"),
     NamespaceID |-> toString(apiResponse, "namespaceId"),
     From |-> toString(apiResponse, "from"),
     To |-> toList(apiResponse, "to"),
     AllowSpdy |-> toBool(apiResponse, "allowSpdy"),
     AllowWebsockets |-> toBool(apiResponse, "allowWebsockets"),
     EnableGoogleCloudServerlessAuthentication |->
         toBool(apiResponse, "enableGoogleCloudServerlessAuthentication"),
     PassIdentityHeaders |-> toBool(apiResponse, "passIdentityHeaders"),
     PreserveHostHeader |-> toBool(apiResponse, "preserveHostHeader"),
     ShowErrorDetails |-> toBool(apiResponse, "showErrorDetails"),
     TLSSkipVerify |-> toBool(apiResponse, "tlsSkipVerify"),
     TLSUpstreamAllowRenegotiation |-> toBool(apiResponse, "tlsUpstreamAllowRenegotiation"),
     PolicyIDs |-> toList(apiResponse, "policyIds"),
     Prefix |-> toString(apiResponse, "prefix"),
     PrefixRewrite |-> toString(apiResponse, "prefixRewrite"),
     KubernetesServiceAccountToken |-> toString(apiResponse, "kubernetesServiceAccountToken")]

\* what one call of an API helper returns: a value, an error (quoting the
\* response body or not), or a crash
Failed(m) == [ok |-> FALSE, panic |-> FALSE, quotes |-> FALSE, model |-> m]
FailedQuoting(m, resp) == [ok |-> FALSE, panic |-> FALSE, quotes |-> SaysNotFound(resp), model |-> m]
Panicked(m) == [ok |-> FALSE, panic |-> TRUE, quotes |-> FALSE, model |-> m]
Succeeded(m) == [ok |-> TRUE, panic |-> FALSE, quotes |-> FALSE, model |-> m]

\* the part of createRoute, updateRoute and readRoute + Read after client.Do
routeResult(resp, expected) ==
    IF resp.err THEN Failed(EmptyRoute)
    ELSE IF resp.status # expected THEN Failed(EmptyRoute)
    ELSE IF ~Decodes(resp) THEN Failed(EmptyRoute)
    ELSE IF mapRoutePanics(resp.doc) THEN Panicked(EmptyRoute)
    ELSE Succeeded(mapRouteResponseToModel(resp.doc))

createRouteCall(h, plan) ==
    Request("POST", Url("routes", h.organizationID, NoId), h.token, createRouteRequest(plan))
createRoute(resp) == routeResult(resp, StatusCreated)

\* readRouteCall addressing the collection instead of the route
readRouteCallWithoutId(h, id) ==
    Request("GET", Url("routes", h.organizationID, NoId), h.token, NoBody)
readRouteCall(h, id) ==
    Request("GET", Url("routes", h.organizationID, id), h.token, NoBody)
readRoute(resp) == routeResult(resp, StatusOK)

updateRouteCall(h, plan) ==
    Request("PUT", Url("routes", h.organizationID, ValueString(plan.ID)), h.token,
            updateRouteRequest(plan))
updateRoute(resp) == routeResult(resp, StatusOK)

deleteRouteCall(h, id) ==
    Request("DELETE", Url("routes", h.organizationID, id), h.token, NoBody)
\* deleteRoute taking every 2xx status for success
deleteRouteAny2xx(resp) ==
    IF resp.err THEN Failed(EmptyRoute)
    ELSE IF resp.status \notin {StatusOK, StatusCreated, StatusNoContent} THEN Failed(EmptyRoute)
    ELSE Succeeded(EmptyRoute)
deleteRoute(resp) ==
    IF resp.err THEN Failed(EmptyRoute)
    ELSE IF resp.status # StatusNoContent THEN Failed(EmptyRoute)
    ELSE Succeeded(EmptyRoute)

\* diagnostics of a handler: the error of the failed call, or the crash
Diagnostics(r, summary) ==
    IF r.ok THEN <<>> ELSE IF r.panic THEN <<"panic">> ELSE <<summary>>

BaseRouteConfig ==
    [EmptyRoute EXCEPT !.Name = StringValue("n"), !.NamespaceID = StringValue("ns"),
                       !.From = StringValue("f"), !.To = ListValue(<<"u1">>)]

RouteConfigs ==
    {BaseRouteConfig,
     [BaseRouteConfig EXCEPT !.Name = StringValue("m"), !.Prefix = StringValue("/p"),
                             !.PolicyIDs = ListValue(<<"p1", "p2">>)]}

\* Step with the request repeated after an error
StepRetrying(k, op, input, req, x, errors, respState, after) ==
    /\ tfstate' = [tfstate EXCEPT ![k] = after]
    /\ remote' = x.remote
    /\ last' = Ran(op, k, input,
                   IF errors # <<>> THEN <<req, req>> ELSE <<req>>,
                   IF errors # <<>> THEN <<x.resp, x.resp>> ELSE <<x.resp>>,
                   errors, tfstate[k], respState)
    /\ nops' = nops + 1
    /\ UNCHANGED <<provider, handler, fn>>

\* Step with the handler dropping its token
StepForgettingToken(k, op, input, req, x, errors, respState, after) ==
    /\ tfstate' = [tfstate EXCEPT ![k] = after]
    /\ remote' = x.remote
    /\ last' = Ran(op, k, input, <<req>>, <<x.resp>>, errors, tfstate[k], respState)
    /\ nops' = nops + 1
    /\ handler' = [handler EXCEPT ![k].token = ""]
    /\ UNCHANGED <<provider, fn>>

\* one operation of a handler on the resource of kind k: the request it sent,
\* the answer, the diagnostics, the state in its response and the state stored
Step(k, op, input, req, x, errors, respState, after) ==
    /\ tfstate' = [tfstate EXCEPT ![k] = after]
    /\ remote' = x.remote
    /\ last' = Ran(op, k, input, <<req>>, <<x.resp>>, errors, tfstate[k], respState)
    /\ nops' = nops + 1
    /\ UNCHANGED <<provider, handler, fn>>

\* after Delete: nothing when the handler added no error
AfterDelete(errors, respState, empty) == IF errors = <<>> THEN Absent(empty) ELSE respState

Ready(k) == nops < MaxOps /\ handler[k].client

RouteCreate ==
    /\ Ready("route") /\ ~tfstate.route.exists
    /\ \E config \in RouteConfigs :
          LET plan == RoutePlan(config, tfstate.route)
              req == createRouteCall(handler.route, plan)
          IN  \E x \in Serve(remote, "route", req) :
                 LET r == createRoute(x.resp)
                     after == IF r.ok THEN Present(r.model) ELSE tfstate.route
                 IN  Step("route", "Create", plan, req, x,
                          Diagnostics(r, "Error creating route"), after, after)

RouteRead ==
    /\ Ready("route") /\ tfstate.route.exists
    /\ LET state == tfstate.route.m
           req == readRouteCall(handler.route, ValueString(state.ID))
       IN  \E x \in Serve(remote, "route", req) :
              LET r == readRoute(x.resp)
                  after == IF r.ok THEN Present(r.model) ELSE tfstate.route
              IN  Step("route", "Read", state, req, x,
                       Diagnostics(r, "Error Reading Route"), after, after)

RouteUpdate ==
    /\ Ready("route") /\ tfstate.route.exists
    /\ \E config \in RouteConfigs :
          LET plan == RoutePlan(config, tfstate.route)
              req == updateRouteCall(handler.route, plan)
          IN  \E x \in Serve(remote, "route", req) :
                 LET r == updateRoute(x.resp)
                     after == IF r.ok THEN Present(r.model) ELSE tfstate.route
                 IN  Step("route", "Update", plan, req, x,
                          Diagnostics(r, "Error Updating Route"), after, after)

\* after a Delete without error the framework removes the state
RouteDelete ==
    /\ Ready("route") /\ tfstate.route.exists
    /\ LET state == tfstate.route.m
           req == deleteRouteCall(handler.route, ValueString(state.ID))
       IN  \E x \in Serve(remote, "route", req) :
              LET r == deleteRoute(x.resp)
                  errors == Diagnostics(r, "Error Deleting Route")
              IN  Step("route", "Delete", state, req, x, errors, tfstate.route,
                       AfterDelete(errors, tfstate.route, EmptyRoute))

\* ImportState: ImportStatePassthroughID stores the id, no request is sent
ImportIds == [route |-> {"r1", "r9"}, policy |-> {"p1", "p9"}, settings |-> {"c1", "c9"}]

StepLocal(k, op, input, errors, respState, after) ==
    /\ tfstate' = [tfstate EXCEPT ![k] = after]
    /\ last' = Ran(op, k, input, <<>>, <<>>, errors, tfstate[k], respState)
    /\ nops' = nops + 1
    /\ UNCHANGED <<provider, handler, remote, fn>>

\* variant: what the handler put into the response state is stored in any case
AfterImportKeeping(errors, respState, prior) == respState

\* an import with an error diagnostic stores nothing
AfterImport(errors, respState, prior) == IF errors = <<>> THEN respState ELSE prior

RouteImportState ==
    /\ Ready("route") /\ ~tfstate.route.exists
    /\ \E id \in ImportIds.route :
          LET respState == Present([EmptyRoute EXCEPT !.ID = StringValue(id)])
          IN  StepLocal("route", "ImportState", [ID |-> id], <<>>, respState,
                        AfterImport(<<>>, respState, tfstate.route))

-----------------------------------------------------------------------------
(* PolicyResource *)

EmptyPolicy ==
    [ID |-> StringNull, Name |-> StringNull, Description |-> StringNull,
     Enforced |-> BoolNull, Explanation |-> StringNull, NamespaceID |-> StringNull,
     PPL |-> StringNull, Remediation |-> StringNull]

\* id is computed and has no plan modifier: it is unknown in every plan
PolicyPlan(config, prior) == [config EXCEPT !.ID = StringUnknown]

\* Policy language documents as the user writes them: compact JSON, the same
\* document with blanks, and a text that is no JSON
PPLCompact == "{\"allow\":{}}"
PPLSpaced == "{ \"allow\": {} }"
PPLBroken == "allow:"

\* variant: a text that does not parse is sent as a JSON string
UnmarshalKeepingText(text) ==
    IF text \in {PPLCompact, PPLSpaced} THEN [t |-> "object", v |-> 1]
    ELSE [t |-> "string", v |-> 0]

\* json.Unmarshal into interface{}: nil when the text does not parse
Unmarshal(text) ==
    IF text \in {PPLCompact, PPLSpaced} THEN [t |-> "object", v |-> 1] ELSE JNull

\* the bytes of a JSON value as the service writes them (json.RawMessage)
RawMessage(doc, k) ==
    IF ~Has(doc, k) THEN ""
    ELSE IF doc[k].t = "null" THEN "null"
    ELSE IF doc[k].t = "object" THEN PPLCompact
    ELSE "?"

createPolicyRequest(model) ==
    [name |-> JString(ValueString(model.Name)),
     description |-> JString(ValueString(model.Description)),
     enforced |-> JBool(ValueBool(model.Enforced)),
     explanation |-> JString(ValueString(model.Explanation)),
     namespaceId |-> JString(ValueString(model.NamespaceID)),
     ppl |-> Unmarshal(ValueString(model.PPL)),
     remediation |-> JString(ValueString(model.Remediation))]

updatePolicyRequest(model) ==
    [namespaceId |-> JString(ValueString(model.NamespaceID)),
     name |-> JString(ValueString(model.Name)),
     enforced |-> JBool(ValueBool(model.Enforced)),
     ppl |-> Unmarshal(ValueString(model.PPL)),
     description |-> JString(ValueString(model.Description)),
     explanation |-> JString(ValueString(model.Explanation)),
     remediation |-> JString(ValueString(model.Remediation))]

\* the Policy struct decoded from a response
Policy(doc) ==
    [ID |-> FieldString(doc, "id"), Name |-> FieldString(doc, "name"),
     Description |-> FieldString(doc, "description"),
     Enforced |-> FieldBool(doc, "enforced"),
     Explanation |-> FieldString(doc, "explanation"),
     NamespaceID |-> FieldString(doc, "namespaceId"),
     PPL |-> RawMessage(doc, "ppl"),
     Remediation |-> FieldString(doc, "remediation")]

NoPolicy == Policy(<<>>)

stringOrEmpty(str) == IF str = "null" THEN "" ELSE str

updatePolicyResourceModel(model, policy) ==
    [model EXCEPT
        !.ID = StringValue(policy.ID),
        !.Name = StringValue(stringOrEmpty(policy.Name)),
        !.Description = StringValue(stringOrEmpty(policy.Description)),
        !.Enforced = BoolValue(policy.Enforced),
        !.Explanation = StringValue(stringOrEmpty(policy.Explanation)),
        !.NamespaceID = StringValue(policy.NamespaceID),
        !.PPL = StringValue(policy.PPL),
        !.Remediation = StringValue(stringOrEmpty(policy.Remediation))]

createPolicyCall(h, policyReq) ==
    Request("POST", Url("policies", h.organizationID, NoId), h.token, policyReq)
createPolicy(resp) ==
    IF resp.err THEN Failed(NoPolicy)
    ELSE IF resp.status # StatusCreated THEN FailedQuoting(NoPolicy, resp)
    ELSE IF ~Decodes(resp) THEN Failed(NoPolicy)
    ELSE Succeeded(Policy(resp.doc))

getPolicyCall(h, policyID) ==
    Request("GET", Url("policies", h.organizationID, policyID), h.token, NoBody)
getPolicy(resp) ==
    IF resp.err THEN Failed(NoPolicy)
    ELSE IF resp.status # StatusOK THEN Failed(NoPolicy)
    ELSE IF ~Decodes(resp) THEN Failed(NoPolicy)
    ELSE Succeeded(Policy(resp.doc))

updatePolicyCall(h, policyID, policyReq) ==
    Request("PUT", Url("policies", h.organizationID, policyID), h.token, policyReq)
updatePolicy(resp) ==
    IF resp.err THEN Failed(NoPolicy)
    ELSE IF resp.status = StatusNotFound THEN Failed(NoPolicy)
    ELSE IF resp.status # StatusOK THEN FailedQuoting(NoPolicy, resp)
    ELSE IF ~Decodes(resp) THEN Failed(NoPolicy)
    ELSE Succeeded(Policy(resp.doc))

deletePolicyCall(h, policyID) ==
    Request("DELETE", Url("policies", h.organizationID, policyID), h.token, NoBody)
\* deletePolicy taking every answer for success
deletePolicyLenient(resp) ==
    IF resp.err THEN Failed(NoPolicy) ELSE Succeeded(NoPolicy)
deletePolicy(resp) ==
    IF resp.err THEN Failed(NoPolicy)
    ELSE IF resp.status # StatusNoContent THEN Failed(NoPolicy)
    ELSE Succeeded(NoPolicy)

\* strings.Contains(err.Error(), "policy not found"): no error of getPolicy
\* quotes the response body, and none of its own texts holds these words
policyNotFound(r) == ~r.ok /\ r.quotes

BasePolicyConfig ==
    [ID |-> StringNull, Name |-> StringValue("n"), Description |-> StringValue(""),
     Enforced |-> BoolValue(FALSE), Explanation |-> StringValue("e"),
     NamespaceID |-> StringValue("ns"), PPL |-> StringValue(PPLCompact),
     Remediation |-> StringValue("r")]

PolicyConfigs ==
    {BasePolicyConfig,
     [BasePolicyConfig EXCEPT !.Name = StringValue("m"), !.Enforced = BoolValue(TRUE),
                              !.PPL = StringValue(PPLSpaced)],
     [BasePolicyConfig EXCEPT !.PPL = StringValue(PPLBroken)]}

\* Create storing what the service answered instead of the plan
PolicyCreateFromResponse ==
    /\ Ready("policy") /\ ~tfstate.policy.exists
    /\ \E config \in PolicyConfigs :
          LET plan == PolicyPlan(config, tfstate.policy)
              req == createPolicyCall(handler.policy, createPolicyRequest(plan))
          IN  \E x \in Serve(remote, "policy", req) :
                 LET r == createPolicy(x.resp)
                     after == IF r.ok
                              THEN Present(updatePolicyResourceModel(plan, r.model))
                              ELSE tfstate.policy
                 IN  Step("policy", "Create", plan, req, x,
                          Diagnostics(r, "Error creating policy"), after, after)

PolicyCreate ==
    /\ Ready("policy") /\ ~tfstate.policy.exists
    /\ \E config \in PolicyConfigs :
          LET plan == PolicyPlan(config, tfstate.policy)
              req == createPolicyCall(handler.policy, createPolicyRequest(plan))
          IN  \E x \in Serve(remote, "policy", req) :
                 LET r == createPolicy(x.resp)
                     after == IF r.ok
                              THEN Present([plan EXCEPT !.ID = StringValue(r.model.ID)])
                              ELSE tfstate.policy
                 IN  Step("policy", "Create", plan, req, x,
                          Diagnostics(r, "Error creating policy"), after, after)

PolicyRead ==
    /\ Ready("policy") /\ tfstate.policy.exists
    /\ LET state == tfstate.policy.m
           req == getPolicyCall(handler.policy, ValueString(state.ID))
       IN  \E x \in Serve(remote, "policy", req) :
              LET r == getPolicy(x.resp)
                  after == IF r.ok
                           THEN Present([updatePolicyResourceModel(state, r.model)
                                            EXCEPT !.ID = StringValue(r.model.ID)])
                           ELSE IF policyNotFound(r) THEN Absent(EmptyPolicy)
                           ELSE tfstate.policy
              IN  Step("policy", "Read", state, req, x,
                       IF policyNotFound(r) THEN <<>>
                       ELSE Diagnostics(r, "Error reading policy"), after, after)

PolicyUpdate ==
    /\ Ready("policy") /\ tfstate.policy.exists
    /\ \E config \in PolicyConfigs :
          LET plan == PolicyPlan(config, tfstate.policy)
              state == tfstate.policy.m
              req == updatePolicyCall(handler.policy, ValueString(state.ID),
                                      updatePolicyRequest(plan))
          IN  \E x \in Serve(remote, "policy", req) :
                 LET r == updatePolicy(x.resp)
                     after == IF r.ok THEN Present(updatePolicyResourceModel(plan, r.model))
                              ELSE tfstate.policy
                 IN  Step("policy", "Update", plan, req, x,
                          Diagnostics(r, "Error updating policy"), after, after)

PolicyDelete ==
    /\ Ready("policy") /\ tfstate.policy.exists
    /\ LET state == tfstate.policy.m
           req == deletePolicyCall(handler.policy, ValueString(state.ID))
       IN  \E x \in Serve(remote, "policy", req) :
              LET r == deletePolicy(x.resp)
                  errors == Diagnostics(r, "Error deleting policy")
              IN  Step("policy", "Delete", state, req, x, errors, tfstate.policy,
                       AfterDelete(errors, tfstate.policy, EmptyPolicy))

PolicyImportState ==
    /\ Ready("policy") /\ ~tfstate.policy.exists
    /\ \E policyID \in ImportIds.policy :
          LET req == getPolicyCall(handler.policy, policyID)
          IN  \E x \in Serve(remote, "policy", req) :
                 LET r == getPolicy(x.resp)
                     errors == Diagnostics(r, "Error importing policy")
                     respState ==
                         IF r.ok THEN Present(updatePolicyResourceModel(EmptyPolicy, r.model))
                         ELSE Present([EmptyPolicy EXCEPT !.ID = StringValue(policyID)])
                 IN  Step("policy", "ImportState", [ID |-> policyID], req, x, errors,
                          respState, AfterImport(errors, respState, tfstate.policy))

-----------------------------------------------------------------------------
(* encoding/json: marshalling a struct by its field tags *)

\* a nil pointer
JNil == [t |-> "nil", v |-> 0]
JPointer(ptr) == IF ptr.nil THEN JNil ELSE JString(ptr.v)
Nil == [nil |-> TRUE, v |-> ""]
PointerTo(str) == [nil |-> FALSE, v |-> str]

IsZero(val) ==
    \/ val.t = "nil"
    \/ val.t = "string" /\ val.v = ""
    \/ val.t = "bool" /\ val.v = FALSE
    \/ val.t = "number" /\ val.v = 0

\* a field tagged `json:"k"` and one tagged `json:"k,omitempty"`
Field(k, val) == [k |-> k, val |-> IF val.t = "nil" THEN JNull ELSE val, keep |-> TRUE]
OmitEmpty(k, val) == [k |-> k, val |-> val, keep |-> ~IsZero(val)]

Marshal(fields) ==
    LET kept == {i \in 1..Len(fields) : fields[i].keep}
    IN  [k \in {fields[i].k : i \in kept} |->
            fields[CHOOSE i \in kept : fields[i].k = k].val]

-----------------------------------------------------------------------------
(* ClusterSettingsResource *)

EmptyClusterSettings ==
    [ID |-> StringNull, Address |-> StringNull, AuthenticateServiceUrl |-> StringNull,
     AutoApplyChangesets |-> BoolNull, CookieExpire |-> StringNull,
     CookieHttpOnly |-> BoolNull, CookieName |-> StringNull,
     DefaultUpstreamTimeout |-> StringNull, DNSLookupFamily |-> StringNull,
     IdentityProvider |-> StringNull, IdentityProviderClientId |-> StringNull,
     IdentityProviderClientSecret |-> StringNull, IdentityProviderUrl |-> StringNull,
     LogLevel |-> StringNull, PassIdentityHeaders |-> BoolNull,
     ProxyLogLevel |-> StringNull, SkipXffAppend |-> BoolNull,
     TimeoutIdle |-> StringNull, TimeoutRead |-> StringNull, TimeoutWrite |-> StringNull,
     TracingSampleRate |-> Float64Null, CodecType |-> StringNull]

\* every attribute but id is optional and not computed; codec_type is no
\* attribute of the schema and stays the zero value
ClusterSettingsPlan(config, prior) ==
    [config EXCEPT !.ID = UseStateForUnknown(prior, prior.m.ID)]

\* ValidateConfig without authenticate_service_url among the attributes
ValidateConfigWithoutAuthenticateUrl(data) ==
    LET idpFieldsSet == \/ ~IsNull(data.IdentityProvider)
                        \/ ~IsNull(data.IdentityProviderClientId)
                        \/ ~IsNull(data.IdentityProviderClientSecret)
                        \/ ~IsNull(data.IdentityProviderUrl)
    IN  IF idpFieldsSet /\ (\/ IsNull(data.IdentityProvider)
                            \/ IsNull(data.IdentityProviderClientId)
                            \/ IsNull(data.IdentityProviderClientSecret)
                            \/ IsNull(data.IdentityProviderUrl))
        THEN <<"Invalid Identity Provider Configuration">>
        ELSE <<>>

\* variant: a validation that accepts every configuration
ValidateConfigAcceptingAll(data) == <<>>

\* ValidateConfig: the error diagnostics it adds
ValidateConfig(data) ==
    LET idpFieldsSet == \/ ~IsNull(data.IdentityProvider)
                        \/ ~IsNull(data.IdentityProviderClientId)
                        \/ ~IsNull(data.IdentityProviderClientSecret)
                        \/ ~IsNull(data.IdentityProviderUrl)
                        \/ ~IsNull(data.AuthenticateServiceUrl)
    IN  IF idpFieldsSet /\ (\/ IsNull(data.IdentityProvider)
                            \/ IsNull(data.IdentityProviderClientId)
                            \/ IsNull(data.IdentityProviderClientSecret)
                            \/ IsNull(data.IdentityProviderUrl)
                            \/ IsNull(data.AuthenticateServiceUrl))
        THEN <<"Invalid Identity Provider Configuration">>
        ELSE <<>>

\* the request struct built from the model; ID is never assigned
createClusterSettingsRequest(model) ==
    [ID |-> "",
     Address |-> ValueString(model.Address),
     AuthenticateServiceUrl |-> ValueString(model.AuthenticateServiceUrl),
     AutoApplyChangesets |-> ValueBool(model.AutoApplyChangesets),
     CookieExpire |-> ValueString(model.CookieExpire),
     CookieHttpOnly |-> ValueBool(model.CookieHttpOnly),
     CookieName |-> ValueString(model.CookieName),
     DefaultUpstreamTimeout |-> ValueString(model.DefaultUpstreamTimeout),
     DNSLookupFamily |-> ValueString(model.DNSLookupFamily),
     IdentityProvider |-> ValueString(model.IdentityProvider),
     IdentityProviderClientId |-> ValueString(model.IdentityProviderClientId),
     IdentityProviderClientSecret |-> ValueString(model.IdentityProviderClientSecret),
     IdentityProviderUrl |-> ValueString(model.IdentityProviderUrl),
     LogLevel |-> ValueString(model.LogLevel),
     PassIdentityHeaders |-> ValueBool(model.PassIdentityHeaders),
     ProxyLogLevel |-> ValueString(model.ProxyLogLevel),
     SkipXffAppend |-> ValueBool(model.SkipXffAppend),
     TimeoutIdle |-> ValueString(model.TimeoutIdle),
     TimeoutRead |-> ValueString(model.TimeoutRead),
     TimeoutWrite |-> ValueString(model.TimeoutWrite),
     TracingSampleRate |-> ValueFloat64(model.TracingSampleRate),
     CodecType |-> ValueString(model.CodecType)]

\* the JSON of a CreateClusterSettingsRequest
CreateClusterSettingsRequest(req) ==
    Marshal(<<Field("id", JString(req.ID)),
              OmitEmpty("address", JString(req.Address)),
              OmitEmpty("authenticateServiceUrl", JString(req.AuthenticateServiceUrl)),
              OmitEmpty("autoApplyChangesets", JBool(req.AutoApplyChangesets)),
              OmitEmpty("cookieExpire", JString(req.CookieExpire)),
              OmitEmpty("cookieHttpOnly", JBool(req.CookieHttpOnly)),
              OmitEmpty("cookieName", JString(req.CookieName)),
              OmitEmpty("defaultUpstreamTimeout", JString(req.DefaultUpstreamTimeout)),
              OmitEmpty("dnsLookupFamily", JString(req.DNSLookupFamily)),
              OmitEmpty("identityProvider", JString(req.IdentityProvider)),
              OmitEmpty("identityProviderClientId", JString(req.IdentityProviderClientId)),
              OmitEmpty("identityProviderClientSecret",
                        JString(req.IdentityProviderClientSecret)),
              OmitEmpty("identityProviderUrl", JString(req.IdentityProviderUrl)),
              OmitEmpty("logLevel", JString(req.LogLevel)),
              OmitEmpty("passIdentityHeaders", JBool(req.PassIdentityHeaders)),
              OmitEmpty("proxyLogLevel", JString(req.ProxyLogLevel)),
              OmitEmpty("skipXffAppend", JBool(req.SkipXffAppend)),
              OmitEmpty("timeoutIdle", JString(req.TimeoutIdle)),
              OmitEmpty("timeoutRead", JString(req.TimeoutRead)),
              OmitEmpty("timeoutWrite", JString(req.TimeoutWrite)),
              OmitEmpty("tracingSampleRate", JNumber(req.TracingSampleRate)),
              OmitEmpty("codecType", JString(req.CodecType))>>)

IfSet(attr, value, zero) == IF ~IsNull(attr) THEN value ELSE zero

updateClusterSettingsRequest(model) ==
    [Address |-> ValueString(model.Address),
     AutoApplyChangesets |-> ValueBool(model.AutoApplyChangesets),
     CookieExpire |-> ValueString(model.CookieExpire),
     CookieHttpOnly |-> ValueBool(model.CookieHttpOnly),
     CookieName |-> ValueString(model.CookieName),
     DefaultUpstreamTimeout |-> ValueString(model.DefaultUpstreamTimeout),
     DNSLookupFamily |-> ValueString(model.DNSLookupFamily),
     LogLevel |-> ValueString(model.LogLevel),
     PassIdentityHeaders |-> ValueBool(model.PassIdentityHeaders),
     SkipXffAppend |-> ValueBool(model.SkipXffAppend),
     TimeoutIdle |-> ValueString(model.TimeoutIdle),
     TimeoutRead |-> ValueString(model.TimeoutRead),
     TimeoutWrite |-> ValueString(model.TimeoutWrite),
     TracingSampleRate |-> ValueFloat64(model.TracingSampleRate),
     CodecType |-> ValueString(model.CodecType),
     AuthenticateServiceUrl |->
         IfSet(model.AuthenticateServiceUrl, ValueString(model.AuthenticateServiceUrl), ""),
     IdentityProvider |->
         IfSet(model.IdentityProvider, ValueString(model.IdentityProvider), ""),
     IdentityProviderClientId |->
         IfSet(model.IdentityProviderClientId, ValueString(model.IdentityProviderClientId), ""),
     IdentityProviderClientSecret |->
         IfSet(model.IdentityProviderClientSecret,
               PointerTo(ValueString(model.IdentityProviderClientSecret)), Nil),
     IdentityProviderUrl |->
         IfSet(model.IdentityProviderUrl, ValueString(model.IdentityProviderUrl), ""),
     ProxyLogLevel |->
         IF ~IsNull(model.ProxyLogLevel) /\ ValueString(model.ProxyLogLevel) # ""
         THEN ValueString(model.ProxyLogLevel) ELSE ""]

\* the JSON of an UpdateClusterSettingsRequest
UpdateClusterSettingsRequest(req) ==
    Marshal(<<OmitEmpty("address", JString(req.Address)),
              OmitEmpty("authenticateServiceUrl", JString(req.AuthenticateServiceUrl)),
              OmitEmpty("autoApplyChangesets", JBool(req.AutoApplyChangesets)),
              OmitEmpty("cookieExpire", JString(req.CookieExpire)),
              OmitEmpty("cookieHttpOnly", JBool(req.CookieHttpOnly)),
              OmitEmpty("cookieName", JString(req.CookieName)),
              OmitEmpty("defaultUpstreamTimeout", JString(req.DefaultUpstreamTimeout)),
              OmitEmpty("dnsLookupFamily", JString(req.DNSLookupFamily)),
              OmitEmpty("identityProvider", JString(req.IdentityProvider)),
              OmitEmpty("identityProviderClientId", JString(req.IdentityProviderClientId)),
              OmitEmpty("identityProviderClientSecret",
                        JPointer(req.IdentityProviderClientSecret)),
              OmitEmpty("identityProviderUrl", JString(req.IdentityProviderUrl)),
              OmitEmpty("logLevel", JString(req.LogLevel)),
              Field("passIdentityHeaders", JBool(req.PassIdentityHeaders)),
              OmitEmpty("proxyLogLevel", JString(req.ProxyLogLevel)),
              Field("skipXffAppend", JBool(req.SkipXffAppend)),
              OmitEmpty("timeoutIdle", JString(req.TimeoutIdle)),
              OmitEmpty("timeoutRead", JString(req.TimeoutRead)),
              OmitEmpty("timeoutWrite", JString(req.TimeoutWrite)),
              OmitEmpty("tracingSampleRate", JNumber(req.TracingSampleRate)),
              Field("codecType", JString(req.CodecType))>>)

\* the ClusterSettings struct decoded from a response
ClusterSettings(doc) ==
    [ID |-> FieldString(doc, "id"),
     Address |-> FieldString(doc, "address"),
     AuthenticateServiceUrl |-> FieldString(doc, "authenticateServiceUrl"),
     AutoApplyChangesets |-> FieldBool(doc, "autoApplyChangesets"),
     CookieExpire |-> FieldString(doc, "cookieExpire"),
     CookieHttpOnly |-> FieldBool(doc, "cookieHttpOnly"),
     CookieName |-> FieldString(doc, "cookieName"),
     DefaultUpstreamTimeout |-> FieldString(doc, "defaultUpstreamTimeout"),
     DNSLookupFamily |-> FieldString(doc, "dnsLookupFamily"),
     IdentityProvider |-> FieldString(doc, "identityProvider"),
     IdentityProviderClientId |-> FieldString(doc, "identityProviderClientId"),
     IdentityProviderClientSecret |->
         IF IsA(doc, "identityProviderClientSecret", "string")
         THEN PointerTo(doc["identityProviderClientSecret"].v) ELSE Nil,
     IdentityProviderUrl |-> FieldString(doc, "identityProviderUrl"),
     LogLevel |-> FieldString(doc, "logLevel"),
     PassIdentityHeaders |-> FieldBool(doc, "passIdentityHeaders"),
     ProxyLogLevel |-> FieldString(doc, "proxyLogLevel"),
     SkipXffAppend |-> FieldBool(doc, "skipXffAppend"),
     TimeoutIdle |-> FieldString(doc, "timeoutIdle"),
     TimeoutRead |-> FieldString(doc, "timeoutRead"),
     TimeoutWrite |-> FieldString(doc, "timeoutWrite"),
     TracingSampleRate |-> FieldNumber(doc, "tracingSampleRate")]

NoClusterSettings == ClusterSettings(<<>>)

StringOrNull(str) == IF str # "" THEN StringValue(str) ELSE StringNull
PointerOrNull(ptr) == IF ~ptr.nil THEN StringValue(ptr.v) ELSE StringNull

updateClusterSettingsResourceModel(model, settings) ==
    [model EXCEPT
        !.Address = StringValue(settings.Address),
        !.AuthenticateServiceUrl = StringValue(settings.AuthenticateServiceUrl),
        !.AutoApplyChangesets = BoolValue(settings.AutoApplyChangesets),
        !.CookieExpire = StringValue(settings.CookieExpire),
        !.CookieHttpOnly = BoolValue(settings.CookieHttpOnly),
        !.CookieName = StringValue(settings.CookieName),
        !.DefaultUpstreamTimeout = StringValue(settings.DefaultUpstreamTimeout),
        !.DNSLookupFamily = StringValue(settings.DNSLookupFamily),
        !.IdentityProvider = StringValue(settings.IdentityProvider),
        !.IdentityProviderClientId = StringValue(settings.IdentityProviderClientId),
        !.IdentityProviderClientSecret = PointerOrNull(settings.IdentityProviderClientSecret),
        !.IdentityProviderUrl = StringValue(settings.IdentityProviderUrl),
        !.LogLevel = StringValue(settings.LogLevel),
        !.PassIdentityHeaders = BoolValue(settings.PassIdentityHeaders),
        !.ProxyLogLevel = StringOrNull(settings.ProxyLogLevel),
        !.SkipXffAppend = BoolValue(settings.SkipXffAppend),
        !.TimeoutIdle = StringValue(settings.TimeoutIdle),
        !.TimeoutRead = StringValue(settings.TimeoutRead),
        !.TimeoutWrite = StringValue(settings.TimeoutWrite),
        !.TracingSampleRate = Float64Value(settings.TracingSampleRate)]

\* the state Read builds from the settings fetched for id
readClusterSettingsModel(state, apiSettings, id) ==
    [state EXCEPT
        !.Address = StringValue(apiSettings.Address),
        !.AutoApplyChangesets = BoolValue(apiSettings.AutoApplyChangesets),
        !.CookieExpire = StringValue(apiSettings.CookieExpire),
        !.CookieHttpOnly = BoolValue(apiSettings.CookieHttpOnly),
        !.CookieName = StringValue(apiSettings.CookieName),
        !.DefaultUpstreamTimeout = StringValue(apiSettings.DefaultUpstreamTimeout),
        !.DNSLookupFamily = StringValue(apiSettings.DNSLookupFamily),
        !.LogLevel = StringValue(apiSettings.LogLevel),
        !.PassIdentityHeaders = BoolValue(apiSettings.PassIdentityHeaders),
        !.SkipXffAppend = BoolValue(apiSettings.SkipXffAppend),
        !.TimeoutIdle = StringValue(apiSettings.TimeoutIdle),
        !.TimeoutRead = StringValue(apiSettings.TimeoutRead),
        !.TimeoutWrite = StringValue(apiSettings.TimeoutWrite),
        !.TracingSampleRate = Float64Value(apiSettings.TracingSampleRate),
        !.AuthenticateServiceUrl = StringOrNull(apiSettings.AuthenticateServiceUrl),
        !.IdentityProvider = StringOrNull(apiSettings.IdentityProvider),
        !.IdentityProviderClientId = StringOrNull(apiSettings.IdentityProviderClientId),
        !.IdentityProviderClientSecret = PointerOrNull(apiSettings.IdentityProviderClientSecret),
        !.IdentityProviderUrl = StringOrNull(apiSettings.IdentityProviderUrl),
        !.ProxyLogLevel = StringOrNull(apiSettings.ProxyLogLevel),
        !.ID = StringValue(id)]

createClusterSettingsCall(h, settings) ==
    Request("POST", Url("settings", h.organizationID, settings.ID), h.token,
            CreateClusterSettingsRequest(settings))
createClusterSettings(resp) ==
    IF resp.err THEN Failed(NoClusterSettings)
    ELSE IF resp.status # StatusCreated THEN FailedQuoting(NoClusterSettings, resp)
    ELSE IF ~Decodes(resp) THEN Failed(NoClusterSettings)
    ELSE Succeeded(ClusterSettings(resp.doc))

getClusterSettingsCall(h, id) ==
    Request("GET", Url("settings", h.organizationID, id), h.token, NoBody)
\* getClusterSettings with an error that does not quote the response body
getClusterSettingsNotQuoting(resp, id) ==
    IF resp.err THEN Failed(NoClusterSettings)
    ELSE IF resp.status # StatusOK THEN Failed(NoClusterSettings)
    ELSE IF ~Decodes(resp) THEN Failed(NoClusterSettings)
    ELSE Succeeded([ClusterSettings(resp.doc) EXCEPT !.ID = id])
getClusterSettings(resp, id) ==
    IF resp.err THEN Failed(NoClusterSettings)
    ELSE IF resp.status # StatusOK THEN FailedQuoting(NoClusterSettings, resp)
    ELSE IF ~Decodes(resp) THEN Failed(NoClusterSettings)
    ELSE Succeeded([ClusterSettings(resp.doc) EXCEPT !.ID = id])

updateClusterSettingsCall(h, id, settings) ==
    Request("PUT", Url("settings", h.organizationID, id), h.token,
            UpdateClusterSettingsRequest(settings))
updateClusterSettings(resp) ==
    IF resp.err THEN Failed(NoClusterSettings)
    ELSE IF resp.status # StatusOK THEN FailedQuoting(NoClusterSettings, resp)
    ELSE IF ~Decodes(resp) THEN Failed(NoClusterSettings)
    ELSE Succeeded(ClusterSettings(resp.doc))

deleteClusterSettingsCall(h, id) ==
    Request("DELETE", Url("settings", h.organizationID, id), h.token, NoBody)
deleteClusterSettings(resp) ==
    IF resp.err THEN Failed(NoClusterSettings)
    ELSE IF resp.status # StatusNoContent THEN FailedQuoting(NoClusterSettings, resp)
    ELSE Succeeded(NoClusterSettings)

\* strings.Contains(err.Error(), "settings not found")
settingsNotFound(r) == ~r.ok /\ r.quotes

BaseClusterSettingsConfig ==
    [EmptyClusterSettings EXCEPT !.Address = StringValue(":443"),
                                 !.AutoApplyChangesets = BoolValue(FALSE),
                                 !.CookieHttpOnly = BoolValue(TRUE),
                                 !.LogLevel = StringValue("info"),
                                 !.ProxyLogLevel = StringValue("")]

\* a configuration without identity provider, one with a complete and one with
\* an incomplete identity provider (a reference that resolved to null after the
\* configuration was validated with the value still unknown)
ClusterSettingsConfigs ==
    {BaseClusterSettingsConfig,
     [BaseClusterSettingsConfig EXCEPT
         !.IdentityProvider = StringValue("oidc"),
         !.IdentityProviderClientId = StringValue("cid"),
         !.IdentityProviderClientSecret = StringValue("sec"),
         !.IdentityProviderUrl = StringValue("https://idp"),
         !.AuthenticateServiceUrl = StringValue("https://auth")],
     [BaseClusterSettingsConfig EXCEPT
         !.IdentityProviderClientId = StringValue("cid"),
         !.IdentityProviderClientSecret = StringValue("sec"),
         !.IdentityProviderUrl = StringValue("https://idp"),
         !.AuthenticateServiceUrl = StringValue("https://auth")]}

ClusterSettingsCreate ==
    /\ Ready("settings") /\ ~tfstate.settings.exists
    /\ \E config \in ClusterSettingsConfigs :
          LET plan == ClusterSettingsPlan(config, tfstate.settings)
              invalid == ValidateConfig(config)
              req == createClusterSettingsCall(handler.settings,
                                               createClusterSettingsRequest(plan))
          IN  IF invalid # <<>>
              THEN StepLocal("settings", "Create", plan, invalid, tfstate.settings,
                             tfstate.settings)
              ELSE \E x \in Serve(remote, "settings", req) :
                      LET r == createClusterSettings(x.resp)
                          after == IF r.ok
                                   THEN Present([plan EXCEPT !.ID = StringValue(r.model.ID)])
                                   ELSE tfstate.settings
                      IN  Step("settings", "Create", plan, req, x,
                               Diagnostics(r, "Error creating cluster settings"),
                               after, after)

ClusterSettingsRead ==
    /\ Ready("settings") /\ tfstate.settings.exists
    /\ LET state == tfstate.settings.m
           id == ValueString(state.ID)
           req == getClusterSettingsCall(handler.settings, id)
       IN  \E x \in Serve(remote, "settings", req) :
              LET r == getClusterSettings(x.resp, id)
                  errors == IF settingsNotFound(r) THEN <<>>
                            ELSE Diagnostics(r, "Error reading cluster settings")
                  after == IF settingsNotFound(r) THEN Absent(EmptyClusterSettings)
                           ELSE IF r.ok
                           THEN Present(readClusterSettingsModel(state, r.model, id))
                           ELSE tfstate.settings
              IN  Step("settings", "Read", state, req, x, errors, after, after)

ClusterSettingsUpdate ==
    /\ Ready("settings") /\ tfstate.settings.exists
    /\ \E config \in ClusterSettingsConfigs :
          LET planned == ClusterSettingsPlan(config, tfstate.settings)
              plan == IF ~IsNull(planned.ProxyLogLevel)
                         /\ ValueString(planned.ProxyLogLevel) = ""
                      THEN [planned EXCEPT !.ProxyLogLevel = StringNull]
                      ELSE planned
              invalid == ValidateConfig(config)
              req == updateClusterSettingsCall(handler.settings, ValueString(plan.ID),
                                               updateClusterSettingsRequest(plan))
          IN  IF invalid # <<>>
              THEN StepLocal("settings", "Update", planned, invalid, tfstate.settings,
                             tfstate.settings)
              ELSE \E x \in Serve(remote, "settings", req) :
                      LET r == updateClusterSettings(x.resp)
                          after == IF r.ok
                                   THEN Present(updateClusterSettingsResourceModel(plan, r.model))
                                   ELSE tfstate.settings
                      IN  Step("settings", "Update", planned, req, x,
                               Diagnostics(r, "Error updating cluster settings"),
                               after, after)

ClusterSettingsDelete ==
    /\ Ready("settings") /\ tfstate.settings.exists
    /\ LET state == tfstate.settings.m
           req == deleteClusterSettingsCall(handler.settings, ValueString(state.ID))
       IN  \E x \in Serve(remote, "settings", req) :
              LET r == deleteClusterSettings(x.resp)
                  errors == Diagnostics(r, "Error deleting cluster settings")
              IN  Step("settings", "Delete", state, req, x, errors, tfstate.settings,
                       AfterDelete(errors, tfstate.settings, EmptyClusterSettings))

ClusterSettingsImportState ==
    /\ Ready("settings") /\ ~tfstate.settings.exists
    /\ \E id \in ImportIds.settings :
          LET req == getClusterSettingsCall(handler.settings, id)
          IN  \E x \in Serve(remote, "settings", req) :
                 LET r == getClusterSettings(x.resp, id)
                     errors == Diagnostics(r, "Error importing cluster settings")
                     respState ==
                         IF r.ok
                         THEN Present([updateClusterSettingsResourceModel(
                                           EmptyClusterSettings, r.model)
                                       EXCEPT !.ID = StringValue(r.model.ID)])
                         ELSE Present([EmptyClusterSettings EXCEPT !.ID = StringValue(id)])
                 IN  Step("settings", "ImportState", [ID |-> id], req, x, errors, respState,
                          AfterImport(errors, respState, tfstate.settings))

-----------------------------------------------------------------------------
(* ClusterDataSource *)

EmptyCluster ==
    [ID |-> StringNull, Name |-> StringNull, NamespaceID |-> StringNull,
     Domain |-> StringNull, FQDN |-> StringNull, AutoDetectIPAddress |-> StringNull,
     CreatedAt |-> StringNull, UpdatedAt |-> StringNull]

\* Cluster structs the service lists; two of them have the same name
Clusters ==
    {[ID |-> "c1", Name |-> "prod", NamespaceID |-> "ns1", Domain |-> "one",
      FQDN |-> "one.pomerium.app", AutoDetectIPAddress |-> "10.0.0.1",
      CreatedAt |-> "t1", UpdatedAt |-> "t4"],
     [ID |-> "c2", Name |-> "prod", NamespaceID |-> "ns2", Domain |-> "two",
      FQDN |-> "two.pomerium.app", AutoDetectIPAddress |-> "10.0.0.2",
      CreatedAt |-> "t2", UpdatedAt |-> "t5"],
     [ID |-> "c3", Name |-> "dev", NamespaceID |-> "ns3", Domain |-> "three",
      FQDN |-> "three.pomerium.app", AutoDetectIPAddress |-> "",
      CreatedAt |-> "t3", UpdatedAt |-> "t6"]}

ClusterNames == {"prod", "staging"}

\* answers of the clusters endpoint
ClustersResponses ==
    {TransportError, Response(StatusOK, "garbage", <<>>),
     ListResponse(StatusNotFound, "json", <<>>)}
    \cup {ListResponse(StatusOK, "json", list) : list \in SeqsUpTo(Clusters, MaxClusters)}

clustersRequest(h) ==
    Request("GET", Url("clusters", h.organizationID, NoId), h.token, NoBody)

\* GetClusters: [ok, clusters]
GetClusters(resp) ==
    IF resp.err THEN [ok |-> FALSE, clusters |-> <<>>]
    ELSE IF resp.status # StatusOK THEN [ok |-> FALSE, clusters |-> <<>>]
    ELSE IF ~Decodes(resp) THEN [ok |-> FALSE, clusters |-> <<>>]
    ELSE [ok |-> TRUE, clusters |-> resp.list]

\* variant of the loop without the break: the last cluster with the name
matchingClusterLast(clusters, name) ==
    LET matches == {i \in 1..Len(clusters) : clusters[i].Name = name}
    IN  IF matches = {} THEN 0
        ELSE CHOOSE i \in matches : \A j \in matches : i >= j

\* the loop of Read: the index of the first cluster with the name, 0 if none
matchingCluster(clusters, name) ==
    LET matches == {i \in 1..Len(clusters) : clusters[i].Name = name}
    IN  IF matches = {} THEN 0
        ELSE CHOOSE i \in matches : \A j \in matches : i <= j

\* Read of the data source: [errors, written, data]
ClusterDataSourceReadResult(data, resp) ==
    LET g == GetClusters(resp)
        i == matchingCluster(g.clusters, ValueString(data.Name))
    IN  IF ~g.ok
        THEN [errors |-> <<"Failed to fetch clusters">>, written |-> FALSE, data |-> data]
        ELSE IF i = 0
        THEN [errors |-> <<"Cluster not found">>, written |-> FALSE, data |-> data]
        ELSE [errors |-> <<>>, written |-> TRUE,
              data |-> [data EXCEPT
                  !.ID = StringValue(g.clusters[i].ID),
                  !.NamespaceID = StringValue(g.clusters[i].NamespaceID),
                  !.Domain = StringValue(g.clusters[i].Domain),
                  !.FQDN = StringValue(g.clusters[i].FQDN),
                  !.AutoDetectIPAddress = StringValue(g.clusters[i].AutoDetectIPAddress),
                  !.CreatedAt = StringValue(g.clusters[i].CreatedAt),
                  !.UpdatedAt = StringValue(g.clusters[i].UpdatedAt)]]

ClusterDataSourceRead ==
    /\ Ready("cluster")
    /\ \E name \in ClusterNames, resp \in ClustersResponses :
          LET data == [EmptyCluster EXCEPT !.Name = StringValue(name)]
              req == clustersRequest(handler.cluster)
              r == ClusterDataSourceReadResult(data, resp)
              respState == IF r.written THEN Present(r.data) ELSE Absent(EmptyCluster)
          IN  Step("cluster", "Read", data, req, [resp |-> resp, remote |-> remote],
                   r.errors, respState,
                   IF r.written THEN respState ELSE tfstate.cluster)

-----------------------------------------------------------------------------

Init ==
    /\ provider = NewProvider
    /\ handler = [k \in Handlers |-> NewHandler]
    /\ tfstate = [route |-> Absent(EmptyRoute), policy |-> Absent(EmptyPolicy),
                  settings |-> Absent(EmptyClusterSettings),
                  cluster |-> Absent(EmptyCluster)]
    /\ remote = NewRemote
    /\ last = NoOp
    /\ nops = 0
    /\ fn = <<>>

Next ==
    \/ ProviderConfigure
    \/ RouteConfigure
    \/ PolicyConfigure
    \/ ClusterSettingsConfigure
    \/ ClusterDataSourceConfigure
    \/ RouteCreate
    \/ RouteRead
    \/ RouteUpdate
    \/ RouteDelete
    \/ RouteImportState
    \/ PolicyCreate
    \/ PolicyRead
    \/ PolicyUpdate
    \/ PolicyDelete
    \/ PolicyImportState
    \/ ClusterSettingsCreate
    \/ ClusterSettingsRead
    \/ ClusterSettingsUpdate
    \/ ClusterSettingsDelete
    \/ ClusterSettingsImportState
    \/ ClusterDataSourceRead

Spec == Init /\ [][Next]_vars

-----------------------------------------------------------------------------
(* Properties of the operations, read off the record of the last one *)

CRUD == {"Create", "Read", "Update", "Delete"}
IsCrud == last.op \in CRUD /\ last.kind \in Kinds
Sent == Len(last.requests)

ExpectedStatus(op) ==
    CASE op = "Create" -> StatusCreated
      [] op = "Delete" -> StatusNoContent
      [] OTHER -> StatusOK

IdpAttributes(m) ==
    <<m.IdentityProvider, m.IdentityProviderClientId, m.IdentityProviderClientSecret,
      m.IdentityProviderUrl, m.AuthenticateServiceUrl>>
IdpSet(m) == {i \in 1..5 : ~IsNull(IdpAttributes(m)[i])}
PartialIdp(m) == Cardinality(IdpSet(m)) \in 1..4

\* C2 (as claimed): every Create, Read, Update and Delete of the three kinds
\* sends exactly one request.
C2_ExactlyOneRequest == IsCrud => Sent = 1

\* C2 (amended): every Create, Read, Update and Delete of the three kinds sends
\* at most one request, whatever the answer to it; it sends none exactly when
\* it is a Create or Update of cluster settings whose identity provider
\* attributes are set in part, and one otherwise.
C2_AtMostOneRequest ==
    IsCrud =>
        /\ Sent <= 1
        /\ Sent = 0 <=> (/\ last.kind = "settings"
                         /\ last.op \in {"Create", "Update"}
                         /\ PartialIdp(last.input))

\* an Update whose only request met a transport error
C2_Witness ==
    /\ IsCrud /\ last.op = "Update" /\ Sent = 1
    /\ last.resps[1].err
    /\ last.errors # <<>>

RemoteFailed ==
    LET resp == last.resps[1]
    IN  \/ resp.err
        \/ resp.status # ExpectedStatus(last.op)
        \/ last.op # "Delete" /\ ~Decodes(resp)

SettingsGone ==
    /\ last.kind = "settings" /\ last.op = "Read"
    /\ ~last.resps[1].err
    /\ last.resps[1].status # StatusOK
    /\ SaysNotFound(last.resps[1])

IsProviderConfigure == last.op = "Configure" /\ last.kind = "provider"

TokenObtained ==
    /\ Len(last.resps) >= 1
    /\ ~last.resps[1].err
    /\ last.resps[1].status = StatusOK
    /\ Decodes(last.resps[1])

\* C4: Configure of the provider sends the token request first and the
\* organizations request second, the second only after a token was obtained and
\* with that token as bearer; with a null API token it sends nothing, after a
\* failed token exchange it sends no second request, and in both cases it adds
\* an error and leaves token and organizationID empty.
C4_ConfigureOrder ==
    IsProviderConfigure =>
        LET config == last.input
            reqs == last.requests
        IN  /\ Sent <= 2
            /\ Sent >= 1 =>
                  /\ reqs[1].method = "POST" /\ reqs[1].url.coll = "token"
                  /\ reqs[1].body = [refreshToken |-> JString(ValueString(config.api_token))]
            /\ Sent = 2 =>
                  /\ TokenObtained
                  /\ reqs[2].method = "GET" /\ reqs[2].url.coll = "organizations"
                  /\ reqs[2].bearer = FieldString(last.resps[1].doc, "idToken")
            /\ IsNull(config.api_token) =>
                  /\ Sent = 0 /\ last.errors # <<>>
                  /\ provider.token = "" /\ provider.organizationID = ""
            /\ (~IsNull(config.api_token) /\ ~TokenObtained) =>
                  /\ Sent = 1 /\ last.errors # <<>>
                  /\ provider.token = "" /\ provider.organizationID = ""
            /\ (~IsNull(config.api_token) /\ TokenObtained) => Sent = 2

\* both requests were sent and the provider holds the token and the organization
C4_Witness ==
    /\ IsProviderConfigure /\ Sent = 2 /\ last.errors = <<>>
    /\ last.requests[2].bearer = "jwt1"
    /\ provider.token = "jwt1" /\ provider.organizationID = "org1"

\* C5: Configure of a handler given the provider leaves the handler's client,
\* token and organizationID equal to the provider's and adds no error; given
\* nil it changes nothing and adds no error; given a value of another type it
\* adds an error and changes nothing.
C5_HandlerConfigure ==
    [][(last'.op = "Configure" /\ last'.kind \in Handlers) =>
          LET k == last'.kind
              data == last'.input.data
          IN  /\ \A other \in Handlers \ {k} : handler'[other] = handler[other]
              /\ data = "provider" =>
                    /\ handler'[k].client = provider.client
                    /\ handler'[k].token = provider.token
                    /\ handler'[k].organizationID = provider.organizationID
                    /\ last'.errors = <<>>
              /\ data = "nil" => handler'[k] = handler[k] /\ last'.errors = <<>>
              /\ data = "other" => handler'[k] = handler[k] /\ last'.errors # <<>>]_vars

\* the cluster data source was handed the configured provider
C5_Witness ==
    /\ last.op = "Configure" /\ last.kind = "cluster"
    /\ last.input.data = "provider"
    /\ handler.cluster.client
    /\ handler.cluster.token = "jwt1" /\ handler.cluster.organizationID = provider.organizationID

Known(a) == a.s = "known"

\* attribute of the model and key of the document, by kind and type; the id
\* is part of the URL
StringAttrs ==
    [route |-> {<<"Name", "name">>, <<"NamespaceID", "namespaceId">>, <<"From", "from">>,
                <<"Prefix", "prefix">>, <<"PrefixRewrite", "prefixRewrite">>,
                <<"KubernetesServiceAccountToken", "kubernetesServiceAccountToken">>},
     policy |-> {<<"Name", "name">>, <<"Description", "description">>,
                 <<"Explanation", "explanation">>, <<"NamespaceID", "namespaceId">>,
                 <<"Remediation", "remediation">>},
     settings |-> {<<"Address", "address">>,
                   <<"AuthenticateServiceUrl", "authenticateServiceUrl">>,
                   <<"CookieExpire", "cookieExpire">>, <<"CookieName", "cookieName">>,
                   <<"DefaultUpstreamTimeout", "defaultUpstreamTimeout">>,
                   <<"DNSLookupFamily", "dnsLookupFamily">>,
                   <<"IdentityProvider", "identityProvider">>,
                   <<"IdentityProviderClientId", "identityProviderClientId">>,
                   <<"IdentityProviderClientSecret", "identityProviderClientSecret">>,
                   <<"IdentityProviderUrl", "identityProviderUrl">>,
                   <<"LogLevel", "logLevel">>, <<"ProxyLogLevel", "proxyLogLevel">>,
                   <<"TimeoutIdle", "timeoutIdle">>, <<"TimeoutRead", "timeoutRead">>,
                   <<"TimeoutWrite", "timeoutWrite">>}]
BoolAttrs ==
    [route |-> {<<"AllowSpdy", "allowSpdy">>, <<"AllowWebsockets", "allowWebsockets">>,
                <<"EnableGoogleCloudServerlessAuthentication",
                  "enableGoogleCloudServerlessAuthentication">>,
                <<"PassIdentityHeaders", "passIdentityHeaders">>,
                <<"PreserveHostHeader", "preserveHostHeader">>,
                <<"ShowErrorDetails", "showErrorDetails">>,
                <<"TLSSkipVerify", "tlsSkipVerify">>,
                <<"TLSUpstreamAllowRenegotiation", "tlsUpstreamAllowRenegotiation">>},
     policy |-> {<<"Enforced", "enforced">>},
     settings |-> {<<"AutoApplyChangesets", "autoApplyChangesets">>,
                   <<"CookieHttpOnly", "cookieHttpOnly">>,
                   <<"PassIdentityHeaders", "passIdentityHeaders">>,
                   <<"SkipXffAppend", "skipXffAppend">>}]
ListAttrs ==
    [route |-> {<<"To", "to">>, <<"PolicyIDs", "policyIds">>}, policy |-> {}, settings |-> {}]
NumberAttrs ==
    [route |-> {}, policy |-> {}, settings |-> {<<"TracingSampleRate", "tracingSampleRate">>}]

Carries(body, plan, attrs, type) ==
    \A a \in attrs :
        Known(plan[a[1]]) => IsA(body, a[2], type) /\ body[a[2]].v = plan[a[1]].v

\* C6 (as claimed): Update sends one PUT whose body has, for every attribute
\* with a value in the plan, that attribute with the planned value, false, ""
\* and 0 included.
C6_FullDocument ==
    (last.op = "Update" /\ last.kind \in Kinds /\ Sent = 1) =>
        LET k == last.kind
            plan == last.input
            body == last.requests[1].body
        IN  /\ last.requests[1].method = "PUT"
            /\ Carries(body, plan, StringAttrs[k], "string")
            /\ Carries(body, plan, BoolAttrs[k], "bool")
            /\ Carries(body, plan, ListAttrs[k], "array")
            /\ Carries(body, plan, NumberAttrs[k], "number")
            /\ (k = "policy" /\ Known(plan.PPL)) =>
                  Has(body, "ppl") /\ body["ppl"] = Unmarshal(ValueString(plan.PPL))

Answered == ~last.resps[1].err /\ last.resps[1].status = ExpectedStatus(last.op)

C9_LookupByName ==
    (IsProviderConfigure /\ last.errors = <<>>) =>
        \E i \in 1..Len(last.resps[2].list) :
            /\ last.resps[2].list[i].name = last.input.organization_name
            /\ last.resps[2].list[i].id = provider.organizationID

-----------------------------------------------------------------------------
(* ValidateConfig over every configuration of the identity provider attributes *)

Presence == {StringNull, StringUnknown, StringValue("x")}

ValidateInputs ==
    {[EmptyClusterSettings EXCEPT !.IdentityProvider = a,
                                  !.IdentityProviderClientId = b,
                                  !.IdentityProviderClientSecret = c,
                                  !.IdentityProviderUrl = d,
                                  !.AuthenticateServiceUrl = e] :
        a \in Presence, b \in Presence, c \in Presence, d \in Presence, e \in Presence}

InitValidate ==
    /\ provider = NewProvider
    /\ handler = [k \in Handlers |-> NewHandler]
    /\ tfstate = [route |-> Absent(EmptyRoute), policy |-> Absent(EmptyPolicy),
                  settings |-> Absent(EmptyClusterSettings),
                  cluster |-> Absent(EmptyCluster)]
    /\ remote = NewRemote
    /\ last = NoOp
    /\ nops = 0
    /\ fn \in {[phase |-> "config", data |-> data, errors |-> <<>>] : data \in ValidateInputs}

ValidateConfigStep ==
    /\ fn.phase = "config"
    /\ fn' = [fn EXCEPT !.phase = "validated", !.errors = ValidateConfig(fn.data)]
    /\ UNCHANGED <<provider, handler, tfstate, remote, last, nops>>

SpecValidate == InitValidate /\ [][ValidateConfigStep]_vars

\* C10: ValidateConfig adds "Invalid Identity Provider Configuration" exactly
\* when at least one but not all of the five identity provider attributes are
\* non-null; with none or all five non-null it adds no error.
C10_ValidateConfig ==
    fn.phase = "validated" =>
        IF PartialIdp(fn.data)
        THEN fn.errors = <<"Invalid Identity Provider Configuration">>
        ELSE fn.errors = <<>>

\* all but identity_provider are set, and the error was reported
C10_Witness ==
    /\ fn.phase = "validated"
    /\ IdpSet(fn.data) = {2, 3, 4, 5}
    /\ fn.errors = <<"Invalid Identity Provider Configuration">>

-----------------------------------------------------------------------------
(* Cluster settings, policies and their state *)

IsSettingsWrite ==
    /\ last.kind = "settings"
    /\ last.op \in {"Create", "Read", "Update", "ImportState"}
    /\ Sent = 1 /\ last.errors = <<>>
    /\ tfstate.settings.exists

\* C11 (as claimed): the id in a state of cluster settings written by Create,
\* Read, Update or ImportState is the id of the cluster the request addressed,
\* not the id inside the answer.
C11_IdIsClusterId ==
    IsSettingsWrite =>
        ValueString(tfstate.settings.m.ID) = last.requests[1].url.id

Answered404 ==
    /\ last.op = "Read" /\ Sent = 1
    /\ ~last.resps[1].err
    /\ last.resps[1].status = StatusNotFound

\* C12 (as claimed): a Read of a policy answered 404 removes the policy from
\* the state and adds no error.
C12_PolicyGone ==
    (last.kind = "policy" /\ Answered404) =>
        ~tfstate.policy.exists /\ last.errors = <<>>

\* C13 (as claimed): a Read of cluster settings answered 404 removes the
\* settings from the state and adds no error.
C13_SettingsGoneOn404 ==
    (last.kind = "settings" /\ Answered404) =>
        ~tfstate.settings.exists /\ last.errors = <<>>

\* C13 (amended): a Read of cluster settings answered with a status other than
\* 200 removes the settings from the state and adds no error exactly when the
\* body of the answer contains "settings not found"; answered otherwise, a 404
\* included, it adds an error and leaves the state as it was.
C13_SettingsGoneByBody ==
    (last.kind = "settings" /\ last.op = "Read" /\ Sent = 1
        /\ ~last.resps[1].err /\ last.resps[1].status # StatusOK) =>
        IF SaysNotFound(last.resps[1])
        THEN ~tfstate.settings.exists /\ last.errors = <<>>
        ELSE tfstate.settings = last.prior /\ last.errors # <<>>

\* imported settings were read, the answer was 404 "settings not found", and
\* the state is gone
C13_Witness ==
    /\ last.kind = "settings" /\ Answered404
    /\ SaysNotFound(last.resps[1])
    /\ last.prior.exists
    /\ ~tfstate.settings.exists /\ last.errors = <<>>

ClustersListed ==
    /\ last.kind = "cluster" /\ last.op = "Read" /\ Sent = 1
    /\ ~last.resps[1].err /\ last.resps[1].status = StatusOK /\ Decodes(last.resps[1])

\* the state the data source holds for a cluster of the list
ClusterAttributes(c) ==
    [ID |-> StringValue(c.ID), Name |-> last.input.Name,
     NamespaceID |-> StringValue(c.NamespaceID), Domain |-> StringValue(c.Domain),
     FQDN |-> StringValue(c.FQDN),
     AutoDetectIPAddress |-> StringValue(c.AutoDetectIPAddress),
     CreatedAt |-> StringValue(c.CreatedAt), UpdatedAt |-> StringValue(c.UpdatedAt)]

\* C14: the cluster data source's Read returns the attributes of the first
\* cluster, in the order of the API's list, whose name equals the configured
\* name; when no cluster has the name it reports "Cluster not found" and
\* writes no state.
C14_FirstClusterByName ==
    ClustersListed =>
        LET list == last.resps[1].list
            name == ValueString(last.input.Name)
            Named(i) == list[i].Name = name
        IN  IF \E i \in 1..Len(list) : Named(i)
            THEN /\ last.errors = <<>>
                 /\ \E i \in 1..Len(list) :
                       /\ Named(i)
                       /\ \A j \in 1..(i - 1) : ~Named(j)
                       /\ tfstate.cluster = Present(ClusterAttributes(list[i]))
            ELSE /\ last.errors = <<"Cluster not found">>
                 /\ ~last.respState.exists
                 /\ tfstate.cluster = last.prior

\* two clusters of the list have the configured name and the first one is stored
C14_Witness ==
    /\ ClustersListed
    /\ Len(last.resps[1].list) = 2
    /\ last.resps[1].list[1].Name = ValueString(last.input.Name)
    /\ last.resps[1].list[2].Name = ValueString(last.input.Name)
    /\ last.resps[1].list[1].ID # last.resps[1].list[2].ID
    /\ tfstate.cluster.exists
    /\ ValueString(tfstate.cluster.m.ID) = last.resps[1].list[1].ID

IsImport == last.op = "ImportState" /\ last.kind \in Kinds

\* an import that fetched: one GET for the imported id, and either a state with
\* that id and the attributes of the answer, or an error and nothing stored
ImportFetched ==
    /\ Sent = 1
    /\ last.requests[1].method = "GET"
    /\ last.requests[1].url.id = last.input.ID
    /\ IF last.errors = <<>>
       THEN /\ tfstate[last.kind].exists
            /\ ValueString(tfstate[last.kind].m.ID) = last.input.ID
            /\ IF last.kind = "policy"
               THEN /\ ValueString(tfstate.policy.m.NamespaceID)
                          = FieldString(last.resps[1].doc, "namespaceId")
                    /\ ValueBool(tfstate.policy.m.Enforced)
                          = FieldBool(last.resps[1].doc, "enforced")
               ELSE last.kind = "settings" =>
                       ValueString(tfstate.settings.m.Address)
                          = FieldString(last.resps[1].doc, "address")
       ELSE tfstate[last.kind] = last.prior /\ ~last.prior.exists

\* C15 (as claimed): Import of a route, a policy or cluster settings issues a
\* GET for the given id; on success the state has the imported id and the
\* attributes of the response, on failure there is an error and nothing of a
\* response is stored.
C15_ImportIssuesGet == IsImport => ImportFetched

\* C15 (amended): Import of a policy or of cluster settings does so; Import of a
\* route sends no request and stores a state in which only id is set, to the
\* imported id.
C15_ImportFetchesExceptRoute ==
    IsImport =>
        IF last.kind = "route"
        THEN /\ Sent = 0 /\ last.errors = <<>>
             /\ tfstate.route.exists
             /\ tfstate.route.m.ID = StringValue(last.input.ID)
             /\ \A a \in DOMAIN tfstate.route.m \ {"ID"} : IsNull(tfstate.route.m[a])
        ELSE ImportFetched

\* cluster settings imported by the cluster id, the answer carrying another id
C15_Witness ==
    /\ IsImport /\ last.kind = "settings" /\ Sent = 1 /\ last.errors = <<>>
    /\ tfstate.settings.exists
    /\ ValueString(tfstate.settings.m.ID) = last.input.ID
    /\ FieldString(last.resps[1].doc, "id") # last.input.ID
    /\ ValueString(tfstate.settings.m.Address) = ":443"

-----------------------------------------------------------------------------
(* The conversions between plans, JSON documents and states, over all inputs *)

\* what a response can hold under a key: nothing, null, "" or a text
Forms == {"absent", "null", "empty", "value"}

JForm(doc, k, form) ==
    CASE form = "absent" -> doc
      [] form = "null" -> With(doc, k, JNull)
      [] form = "empty" -> With(doc, k, JString(""))
      [] form = "nulltext" -> With(doc, k, JString("null"))
      [] OTHER -> With(doc, k, JString("x"))

\* the document the settings endpoint answers a GET with, the six keys in
\* the given forms
SettingsAnswer(forms) ==
    JForm(JForm(JForm(JForm(JForm(JForm(InitialSettings,
        "authenticateServiceUrl", forms[1]), "identityProvider", forms[2]),
        "identityProviderClientId", forms[3]), "identityProviderClientSecret", forms[4]),
        "identityProviderUrl", forms[5]), "proxyLogLevel", forms[6])

\* what a plan can hold for an optional string: null, "" or a text
PlannedStrings == {StringNull, StringValue(""), StringValue("x")}

\* plans of cluster settings
SettingsPlans ==
    {[BaseClusterSettingsConfig EXCEPT !.AuthenticateServiceUrl = a,
                                       !.IdentityProvider = b,
                                       !.IdentityProviderClientId = c,
                                       !.IdentityProviderClientSecret = d,
                                       !.IdentityProviderUrl = e,
                                       !.ProxyLogLevel = f] :
        a \in PlannedStrings, b \in PlannedStrings, c \in PlannedStrings,
        d \in PlannedStrings, e \in PlannedStrings, f \in PlannedStrings}

\* the document the policies endpoint answers with, the four keys in the given
\* forms
PolicyAnswer(forms) ==
    JForm(JForm(JForm(JForm([id |-> JString("p1"), namespaceId |-> JString("ns")],
        "name", forms[1]), "description", forms[2]),
        "explanation", forms[3]), "remediation", forms[4])

PlannedBools == {BoolNull, BoolValue(FALSE), BoolValue(TRUE)}

\* route models, the optional attributes null or set
RouteModels ==
    {[BaseRouteConfig EXCEPT !.To = to, !.AllowWebsockets = aw,
                             !.PassIdentityHeaders = pih, !.PreserveHostHeader = phh,
                             !.PolicyIDs = ids, !.Prefix = pre, !.PrefixRewrite = rew,
                             !.KubernetesServiceAccountToken = tok] :
        to \in {ListNull, ListValue(<<"u2", "u1">>)}, aw \in PlannedBools,
        pih \in PlannedBools, phh \in PlannedBools,
        ids \in {ListNull, ListValue(<<"p2", "p1">>)}, pre \in PlannedStrings,
        rew \in PlannedStrings, tok \in PlannedStrings}

FunctionInputs ==
    {[phase |-> "answer", answer |-> forms, out |-> <<>>] : forms \in [1..6 -> Forms]}
    \cup {[phase |-> "plan", plan |-> plan, out |-> <<>>] : plan \in SettingsPlans}
    \cup {[phase |-> "route", model |-> model, out |-> <<>>] : model \in RouteModels}
    \cup {[phase |-> "policy", policy |-> forms, out |-> <<>>] :
             forms \in [1..4 -> Forms \cup {"nulltext"}]}

InitFunctions ==
    /\ provider = NewProvider
    /\ handler = [k \in Handlers |-> NewHandler]
    /\ tfstate = [route |-> Absent(EmptyRoute), policy |-> Absent(EmptyPolicy),
                  settings |-> Absent(EmptyClusterSettings),
                  cluster |-> Absent(EmptyCluster)]
    /\ remote = NewRemote
    /\ last = NoOp
    /\ nops = 0
    /\ fn \in FunctionInputs

Apply(phase, done, out) ==
    /\ fn.phase = phase
    /\ fn' = [fn EXCEPT !.phase = done, !.out = out]
    /\ UNCHANGED <<provider, handler, tfstate, remote, last, nops>>

\* Read of cluster settings, from the decoded answer to the state
ReadClusterSettingsStep ==
    Apply("answer", "state",
          readClusterSettingsModel(EmptyClusterSettings,
                                   ClusterSettings(SettingsAnswer(fn.answer)), "c1"))

\* the body of the PUT that Update sends for a plan
UpdateClusterSettingsRequestStep ==
    Apply("plan", "body", UpdateClusterSettingsRequest(updateClusterSettingsRequest(fn.plan)))

\* the payload of the POST that Create sends for a route
CreateRouteRequestStep ==
    Apply("route", "payload", createRouteRequest(fn.model))

\* the model of a policy, from the decoded answer
UpdatePolicyResourceModelStep ==
    Apply("policy", "model",
          updatePolicyResourceModel(EmptyPolicy, Policy(PolicyAnswer(fn.policy))))

NextFunctions ==
    \/ ReadClusterSettingsStep
    \/ UpdateClusterSettingsRequestStep
    \/ CreateRouteRequestStep
    \/ UpdatePolicyResourceModelStep

SpecFunctions == InitFunctions /\ [][NextFunctions]_vars

NormalisedAttributes ==
    {<<"AuthenticateServiceUrl", "authenticateServiceUrl">>,
     <<"IdentityProvider", "identityProvider">>,
     <<"IdentityProviderClientId", "identityProviderClientId">>,
     <<"IdentityProviderClientSecret", "identityProviderClientSecret">>,
     <<"IdentityProviderUrl", "identityProviderUrl">>,
     <<"ProxyLogLevel", "proxyLogLevel">>}

\* C16: Read of cluster settings stores null, never "", for each of
\* authenticate_service_url, identity_provider, identity_provider_client_id,
\* identity_provider_client_secret, identity_provider_url and proxy_log_level
\* that the answer leaves out or gives as null or as the empty string, and
\* stores the answer's value when it is a non-empty string.
C16_EmptyIsNull ==
    fn.phase = "state" =>
        LET doc == SettingsAnswer(fn.answer)
        IN  \A p \in NormalisedAttributes :
                IF IsA(doc, p[2], "string") /\ doc[p[2]].v # ""
                THEN fn.out[p[1]] = StringValue(doc[p[2]].v)
                ELSE fn.out[p[1]] = StringNull

NullableFields ==
    {<<"AuthenticateServiceUrl", "authenticateServiceUrl">>,
     <<"IdentityProvider", "identityProvider">>,
     <<"IdentityProviderClientId", "identityProviderClientId">>,
     <<"IdentityProviderClientSecret", "identityProviderClientSecret">>,
     <<"IdentityProviderUrl", "identityProviderUrl">>}

\* C17: the body of the PUT built by updateClusterSettingsRequest has each of
\* authenticateServiceUrl, identityProvider, identityProviderClientId,
\* identityProviderClientSecret and identityProviderUrl exactly when the plan's
\* attribute is not null, and has proxyLogLevel exactly when the plan's
\* attribute is neither null nor the empty string.
C17_PresentWhenSet ==
    fn.phase = "body" =>
        /\ \A p \in NullableFields : Has(fn.out, p[2]) <=> ~IsNull(fn.plan[p[1]])
        /\ Has(fn.out, "proxyLogLevel") <=>
              (~IsNull(fn.plan.ProxyLogLevel) /\ ValueString(fn.plan.ProxyLogLevel) # "")

OptionalLists == {<<"To", "to">>, <<"PolicyIDs", "policyIds">>}
OptionalBools == {<<"AllowWebsockets", "allowWebsockets">>,
                  <<"PassIdentityHeaders", "passIdentityHeaders">>,
                  <<"PreserveHostHeader", "preserveHostHeader">>}
OptionalStrings == {<<"Prefix", "prefix">>, <<"PrefixRewrite", "prefixRewrite">>,
                    <<"KubernetesServiceAccountToken", "kubernetesServiceAccountToken">>}

\* the payload has the key, with the given value, exactly when the attribute is set
OnlyWhenSet(p, val) ==
    IF IsNull(fn.model[p[1]]) THEN ~Has(fn.out, p[2])
    ELSE Has(fn.out, p[2]) /\ fn.out[p[2]] = val

\* C18: the payload built by createRouteRequest has each of to, allowWebsockets,
\* passIdentityHeaders, preserveHostHeader, policyIds, prefix, prefixRewrite and
\* kubernetesServiceAccountToken only when the attribute is not null, and then
\* with the attribute's value (a list with the same elements in the same
\* order); a null attribute leaves the key out.
C18_OptionalOnlyWhenSet ==
    fn.phase = "payload" =>
        /\ \A p \in OptionalLists : OnlyWhenSet(p, JArray(fn.model[p[1]].v))
        /\ \A p \in OptionalBools : OnlyWhenSet(p, JBool(fn.model[p[1]].v))
        /\ \A p \in OptionalStrings : OnlyWhenSet(p, JString(fn.model[p[1]].v))

PolicyStrings == {<<"Name", "name">>, <<"Description", "description">>,
                  <<"Explanation", "explanation">>, <<"Remediation", "remediation">>}

\* C19: updatePolicyResourceModel stores name, description, explanation and
\* remediation as non-null strings equal to the strings of the answer, and as ""
\* where the answer has null (or leaves the key out).
C19_StringsAsReturned ==
    fn.phase = "model" =>
        LET doc == PolicyAnswer(fn.policy)
        IN  \A p \in PolicyStrings :
                fn.out[p[1]] = StringValue(IF IsA(doc, p[2], "string")
                                           THEN doc[p[2]].v ELSE "")

-----------------------------------------------------------------------------
(* Create of a policy *)

PolicyCreated ==
    /\ last.kind = "policy" /\ last.op = "Create" /\ Sent = 1 /\ last.errors = <<>>

\* C20: a successful Create of a policy stores the plan with only id changed:
\* id is the id of the API's answer, every other attribute has the planned
\* value, whatever the answer contains.
C20_PlanStoredWithId ==
    PolicyCreated =>
        /\ tfstate.policy.exists
        /\ tfstate.policy.m.ID = StringValue(FieldString(last.resps[1].doc, "id"))
        /\ \A a \in DOMAIN last.input \ {"ID"} : tfstate.policy.m[a] = last.input[a]

\* the answer has the policy language in another form than the plan, and the
\* planned text is stored
C20_Witness ==
    /\ PolicyCreated
    /\ tfstate.policy.exists
    /\ RawMessage(last.resps[1].doc, "ppl") # ValueString(last.input.PPL)
    /\ tfstate.policy.m.PPL = last.input.PPL
    /\ ~IsNull(tfstate.policy.m.ID) /\ ValueString(tfstate.policy.m.ID) # ""
    /\ last.input.ID = StringUnknown

-----------------------------------------------------------------------------
(* Policies whose policy language does not parse *)

BrokenPolicySent ==
    /\ last.kind = "policy" /\ last.op \in {"Create", "Update"}
    /\ ValueString(last.input.PPL) \notin {PPLCompact, PPLSpaced}

\* C21: when the ppl attribute of a policy is not valid JSON, Create and Update
\* still send their request, with ppl set to JSON null, and add no error
\* diagnostic for the parse failure: an answer that is a success leaves no error.
C21_BrokenPPLSentAsNull ==
    BrokenPolicySent =>
        /\ Sent = 1
        /\ Has(last.requests[1].body, "ppl")
        /\ last.requests[1].body["ppl"].t = "null"
        /\ (/\ ~last.resps[1].err
            /\ last.resps[1].status = ExpectedStatus(last.op)
            /\ Decodes(last.resps[1])) => last.errors = <<>>

\* a policy with a broken policy language was created
C21_Witness ==
    /\ BrokenPolicySent /\ last.op = "Create" /\ Sent = 1
    /\ last.requests[1].method = "POST"
    /\ last.requests[1].body["ppl"] = JNull
    /\ last.errors = <<>>
    /\ tfstate.policy.exists
    /\ ValueString(tfstate.policy.m.PPL) = PPLBroken

-----------------------------------------------------------------------------
(* Resolution of the organization *)

\* Configure of the provider got as far as asking for the organizations
OrganizationsAsked == IsProviderConfigure /\ Sent = 2

OrganizationsListed ==
    /\ OrganizationsAsked
    /\ ~last.resps[2].err /\ last.resps[2].status = StatusOK /\ Decodes(last.resps[2])

-----------------------------------------------------------------------------
(* Validation inside Create and Update of cluster settings *)

InvalidSettingsPlanned ==
    /\ last.kind = "settings" /\ last.op \in {"Create", "Update"}
    /\ PartialIdp(last.input)

\* C23: Create and Update of cluster settings validate the identity provider
\* attributes before they contact the API: when the validation reports an
\* error, no HTTP request is issued and no state is written.
C23_ValidationBeforeRequest ==
    InvalidSettingsPlanned =>
        /\ Sent = 0
        /\ last.errors = <<"Invalid Identity Provider Configuration">>
        /\ last.respState = last.prior
        /\ tfstate.settings = last.prior

\* an Update of stored settings was refused by the validation
C23_Witness ==
    /\ InvalidSettingsPlanned /\ last.op = "Update"
    /\ Sent = 0 /\ last.errors # <<>>
    /\ last.prior.exists /\ tfstate.settings = last.prior

-----------------------------------------------------------------------------
(* Read after Create *)

\* the last operation was a successful Create of kind k, answered with the
\* document that was sent, completed by an id, and the service stores exactly
\* that document
CreatedAndStored(k) ==
    /\ last.kind = k /\ last.op = "Create" /\ Sent = 1 /\ last.errors = <<>>
    /\ ~last.resps[1].err /\ last.resps[1].status = StatusCreated
    /\ Decodes(last.resps[1])
    /\ LET id == FieldString(last.resps[1].doc, "id")
       IN  /\ last.resps[1].doc = With(last.requests[1].body, "id", JString(id))
           /\ Stored(remote, k, id)
           /\ remote.docs[k][id] = last.resps[1].doc

\* the step is a Read of kind k answered with the stored document, unchanged
ReadsStored(k) ==
    /\ last'.kind = k /\ last'.op = "Read" /\ Len(last'.requests) = 1
    /\ Stored(remote, k, last'.requests[1].url.id)
    /\ last'.resps[1] = Response(StatusOK, "json", remote.docs[k][last'.requests[1].url.id])

NoDrift(k) == (CreatedAndStored(k) /\ ReadsStored(k)) => tfstate'[k] = tfstate[k]

\* C24: for each kind, when the service stores exactly the document it was sent
\* and returns it unchanged, a Read right after a successful Create leaves a
\* state equal, attribute by attribute, to the state Create stored.
C24_NoDriftAfterCreate == [][\A k \in Kinds : NoDrift(k)]_vars

====
